---- MODULE Spec2Model ----
(***************************************************************************)
(* Elden Ring save manager: the BND4 container parser, the slot extractor, *)
(* the stats locator and codec, the checksum engine and the copy/extract   *)
(* operations of EldenRingSaveManager (save-manager.js), and the           *)
(* application around them: the IPC handlers of main.js, the bridge of     *)
(* preload.js and the state of SaveManagerRenderer (renderer.js).          *)
(*                                                                         *)
(* A Buffer is kept as its length and the map of its non-zero bytes, so    *)
(* the real offsets of the format (26 MB files) are used as they are: a    *)
(* byte that the map does not hold is 0.  A JavaScript exception is the    *)
(* value Throw(message); a string is the sequence of its code units.       *)
(***************************************************************************)
EXTENDS Integers, Sequences, FiniteSets, TLC

(***************************************************************************)
(* Format constants of the constructor and of the methods' locals.         *)
(***************************************************************************)
CHECKSUM_LENGTH == 16
HEADER_DATA_OFFSET == 26221838
HEADER_DATA_LENGTH == 588
SAVE_HEADERS_SECTION_OFFSET == 26215344
SAVE_HEADERS_SECTION_LENGTH == 393216
ACTIVE_SAVE_SLOT_OFFSET == 26221828
\* "USER_DATA"
SAVE_IDENTIFIER == <<85, 83, 69, 82, 95, 68, 65, 84, 65>>
\* "BND4"
BND4 == <<66, 78, 68, 52>>

\* getCharacterStats / setCharacterStats
baseLevelOffset == 26221872
slotStride == 2621456
firstSlotOffset == 784
slotWindowLength == 2621440
scanLimit == 120000
scanTail == 50
GOD_MODE_VALUE == 60000
levelBase == 79

\* recalculateChecksums
slotLength == 2621439
checksumLength == 15
slotDataIndex0 == 784
checksumIndex0 == 768
generalDataStart == 26215344
generalDataEnd == 26608559
generalChecksumStart == 26215328

(***************************************************************************)
(* Exceptions and JavaScript's non-values.                                 *)
(***************************************************************************)
Throw(msg) == [throw |-> msg]
IsThrow(r) == "throw" \in DOMAIN r
\* a loop that never ends
Hang == [hang |-> TRUE]
IsHang(r) == "hang" \in DOMAIN r
Failed(r) == IsThrow(r) \/ IsHang(r)
RangeError == "RangeError"
Null == [null |-> TRUE]
IsNull(r) == "null" \in DOMAIN r

Min(a, b) == IF a < b THEN a ELSE b
Max(a, b) == IF a > b THEN a ELSE b

(***************************************************************************)
(* Buffers.                                                                *)
(***************************************************************************)
\* A byte map, evaluated once and for all when it is built.
NoBytes == [o \in {} |-> 0]
Bytes(f) == f @@ NoBytes

\* The buffer of length len whose byte at o \in S is f[o] and 0 elsewhere.
MkBuf(len, S, f) ==
  LET D == {o \in S : o >= 0 /\ o < len /\ f[o] # 0}
  IN  [len |-> len, nz |-> Bytes([o \in D |-> f[o]])]

EmptyBuf == [len |-> 0, nz |-> NoBytes]

\* buffer[o] for an offset inside the buffer
At(b, o) == IF o \in DOMAIN b.nz THEN b.nz[o] ELSE 0

\* Buffer.prototype.slice(start, end): negative offsets count from the end,
\* both ends are clamped to the buffer, an inverted range is empty.
AdjustOffset(o, len) ==
  IF o < 0 THEN Max(o + len, 0) ELSE Min(o, len)

SliceAt(b, s, n) ==
  [len |-> n,
   nz  |-> Bytes([o \in {p - s : p \in {q \in DOMAIN b.nz : q >= s /\ q < s + n}} |->
                    b.nz[o + s]])]

Slice(b, start, end) ==
  SliceAt(b, AdjustOffset(start, b.len),
          Max(AdjustOffset(end, b.len) - AdjustOffset(start, b.len), 0))

SliceFrom(b, start) == Slice(b, start, b.len)

\* Buffer.concat
Concat2(a, b) ==
  [len |-> a.len + b.len,
   nz  |-> Bytes([o \in DOMAIN a.nz \cup {p + a.len : p \in DOMAIN b.nz} |->
                    IF o < a.len THEN a.nz[o] ELSE b.nz[o - a.len]])]

\* source.copy(target, targetStart): a negative targetStart throws, a start
\* at or past the end copies nothing, and the copy stops at the target's end.
CopyBytes(source, target, targetStart, n) ==
  [len |-> target.len,
   nz  |-> Bytes([o \in {q \in DOMAIN target.nz : q < targetStart \/ q >= targetStart + n}
                          \cup {p + targetStart : p \in {q \in DOMAIN source.nz : q < n}} |->
                    IF o >= targetStart /\ o < targetStart + n
                      THEN source.nz[o - targetStart] ELSE target.nz[o]])]

CopyInto(source, target, targetStart) ==
  IF targetStart < 0 THEN Throw(RangeError)
  ELSE IF targetStart >= target.len THEN target
  ELSE CopyBytes(source, target, targetStart, Min(source.len, target.len - targetStart))

\* buffer[o] = v for 0 <= v <= 255 (an index outside the buffer is ignored)
SetByte(b, o, v) ==
  IF o < 0 \/ o >= b.len THEN b
  ELSE MkBuf(b.len, DOMAIN b.nz \cup {o},
             [p \in DOMAIN b.nz \cup {o} |-> IF p = o THEN v ELSE b.nz[p]])

\* The typed reads and writes throw a RangeError outside the buffer.
CanAccess(b, o, w) == o >= 0 /\ o + w <= b.len

ReadUInt8(b, o) == At(b, o)
ReadUInt16LE(b, o) == At(b, o) + 256 * At(b, o + 1)
ReadInt32LE(b, o) ==
  LET b3 == At(b, o + 3)
  IN  At(b, o) + 256 * At(b, o + 1) + 65536 * At(b, o + 2)
        + 16777216 * (IF b3 >= 128 THEN b3 - 256 ELSE b3)

\* A 64-bit value that does not fit 31 bits is saturated: it is only ever
\* used as an offset or a length of a slice, which clamps it to the buffer.
Saturated == 2^29
Clamp(x) == Max(-Saturated, Min(Saturated, x))
ReadBigInt64LE(b, o) ==
  LET lo == ReadInt32LE(b, o)
      hi == ReadInt32LE(b, o + 4)
  IN  IF hi = 0 /\ lo >= 0 THEN Min(lo, Saturated)
      ELSE IF hi = -1 /\ lo < 0 THEN Max(lo, -Saturated)
      ELSE IF hi >= 0 THEN Saturated ELSE -Saturated

WriteUInt8(b, v, o) ==
  IF v < 0 \/ v > 255 \/ ~CanAccess(b, o, 1) THEN Throw(RangeError)
  ELSE SetByte(b, o, v)

WriteUInt16LE(b, v, o) ==
  IF v < 0 \/ v > 65535 \/ ~CanAccess(b, o, 2) THEN Throw(RangeError)
  ELSE SetByte(SetByte(b, o, v % 256), o + 1, v \div 256)

\* buffer.toString('ascii', start, end): decoding clears the high bit of
\* every byte.
AsciiString(b, start, end) ==
  LET s == Slice(b, start, end)
  IN  [i \in 1..s.len |-> At(s, i - 1) % 128]

\* buffer.toString('utf16le'): one code unit per byte pair, a trailing odd
\* byte is dropped.
Utf16leString(b) ==
  [i \in 1..(b.len \div 2) |-> At(b, 2 * i - 2) + 256 * At(b, 2 * i - 1)]

(***************************************************************************)
(* crypto.createHash('md5').update(data).digest(): a 16-byte digest that   *)
(* is a function of the data alone, of its length, its bytes and their     *)
(* positions.                                                              *)
(***************************************************************************)
RECURSIVE Mix(_, _, _)
Mix(data, S, k) ==
  IF S = {} THEN 0
  ELSE LET o == CHOOSE x \in S : TRUE
       IN  (((o % 241) + 1 + 3 * k) * data.nz[o] + Mix(data, S \ {o}, k)) % 65536

Md5(data) ==
  LET d == [k \in 0..15 |->
              (1 + 7 * k + (data.len % 251) + Mix(data, DOMAIN data.nz, k)) % 256]
  IN  MkBuf(16, 0..15, d)

(***************************************************************************)
(* Container parser.                                                       *)
(***************************************************************************)
\* x & m # 0 for a single-bit mask m
Bit(x, m) == (x \div m) % 2 = 1

RECURSIVE ReverseLoop(_, _, _)
ReverseLoop(byte, result, i) ==
  IF i = 8 THEN result
  ELSE ReverseLoop(byte \div 2, result * 2 + (byte % 2), i + 1)

reverseBytes(byte) == ReverseLoop(byte, 0, 0)

\* A resolution that keeps every raw byte with its low bit set: the variant
\* of ResolveFormat that the format resolution of C19 must tell apart.
ResolveFormatLowBit(rawFormat, bitBigEndian) ==
  IF bitBigEndian \/ Bit(rawFormat, 1) THEN rawFormat ELSE reverseBytes(rawFormat)

\* format as parseSaveFile resolves it from the raw byte
ResolveFormat(rawFormat, bitBigEndian) ==
  LET keepFormat == bitBigEndian \/ (Bit(rawFormat, 1) /\ ~Bit(rawFormat, 128))
  IN  IF keepFormat THEN rawFormat ELSE reverseBytes(rawFormat)

\* readUnicodeString: 2-byte reads from the cursor until a pair of zero
\* bytes; a read at or past the end of the buffer yields no bytes, so the
\* loop never ends once the cursor has left the buffer.
RECURSIVE ReadNameBytes(_, _, _)
ReadNameChar(buffer, offset, bytes, charBytes) ==
  IF charBytes.len = 2 /\ At(charBytes, 0) = 0 /\ At(charBytes, 1) = 0
    THEN [bytes |-> bytes]
    ELSE ReadNameBytes(buffer, offset + 2,
                       bytes \o [i \in 1..charBytes.len |-> At(charBytes, i - 1)])

ReadNameBytes(buffer, offset, bytes) ==
  IF offset >= buffer.len THEN Hang
  ELSE ReadNameChar(buffer, offset, bytes, Slice(buffer, offset, offset + 2))

\* Buffer.concat(bytes).toString(bigEndian ? 'utf16be' : 'utf16le')
DecodeName(r, bigEndian) ==
  IF Failed(r) THEN r
  ELSE IF Len(r.bytes) = 0 THEN [name |-> <<>>]
  ELSE IF bigEndian THEN Throw("TypeError: Unknown encoding: utf16be")
  ELSE [name |-> [i \in 1..(Len(r.bytes) \div 2) |->
                    r.bytes[2 * i - 1] + 256 * r.bytes[2 * i]]]

readUnicodeString(buffer, offset, bigEndian) ==
  DecodeName(ReadNameBytes(buffer, offset, <<>>), bigEndian)

\* A header without the two fields of format 0x04: the variant of HeaderEnd
\* that the header shape of C20 must tell apart.
HeaderEndPlain(format, qX) == qX

\* Layout of one entry header read at cursor p under the resolved format.
HeaderEnd(format, qX) ==
  qX + (IF format = 4 THEN 8 ELSE 0)
HeaderExtra(format, qN) ==
  qN + (IF Bit(format, 4) \/ Bit(format, 8) THEN 4 ELSE 0)
HeaderNameOffset(format, qI) ==
  qI + (IF Bit(format, 2) THEN 4 ELSE 0)
HeaderId(format, qD) ==
  qD + (IF Bit(format, 16) THEN 8 ELSE 4)
HeaderDataOffset(format, qU) ==
  qU + (IF Bit(format, 32) THEN 8 ELSE 0)

HeaderShape(p, format) ==
  [uncompressed |-> p + 16,
   dataOffset |-> HeaderDataOffset(format, p + 16),
   id |-> HeaderId(format, HeaderDataOffset(format, p + 16)),
   nameOffset |-> HeaderNameOffset(format, HeaderId(format, HeaderDataOffset(format, p + 16))),
   extra |-> HeaderExtra(format, HeaderNameOffset(format,
               HeaderId(format, HeaderDataOffset(format, p + 16)))),
   end |-> HeaderEnd(format, HeaderExtra(format, HeaderNameOffset(format,
             HeaderId(format, HeaderDataOffset(format, p + 16)))))]

JIS == <<74, 73, 83>>

\* The name of an entry: read at the name offset when the archive is
\* unicode, decoded as Shift-JIS otherwise.
ReadName(buffer, sh, format, unicode, bigEndian) ==
  IF ~(Bit(format, 4) \/ Bit(format, 8)) THEN [name |-> <<>>]
  ELSE IF unicode
    THEN readUnicodeString(buffer, ReadInt32LE(buffer, sh.nameOffset), bigEndian)
    ELSE [name |-> JIS]

\* The header record of one entry, once its name is read.
HeaderRecord(buffer, p, format, sh, name) ==
  IF Failed(name) THEN name
  ELSE IF format = 4 /\ ~CanAccess(buffer, sh.extra, 8) THEN Throw(RangeError)
  ELSE [header |->
          [fileFlags |-> ReadUInt8(buffer, p),
           compressedSize |-> ReadBigInt64LE(buffer, p + 8),
           uncompressedSize |-> IF Bit(format, 32)
                                  THEN ReadBigInt64LE(buffer, sh.uncompressed)
                                  ELSE -1,
           dataOffset |-> IF Bit(format, 16)
                            THEN ReadBigInt64LE(buffer, sh.dataOffset)
                            ELSE ReadInt32LE(buffer, sh.dataOffset),
           id |-> IF format = 4 THEN ReadInt32LE(buffer, sh.extra)
                  ELSE IF Bit(format, 2) THEN ReadInt32LE(buffer, sh.id)
                  ELSE -1,
           hasName |-> Bit(format, 4) \/ Bit(format, 8),
           name |-> name.name],
        offset |-> sh.end]

\* A reader that fails on the sentinel it should accept: the variant of
\* ReadHeaderShaped that the sentinel test of C15 must tell apart.
ReadHeaderShapedInverted(buffer, p, format, unicode, bigEndian, sh) ==
  IF ~CanAccess(buffer, p, 1) \/ ~CanAccess(buffer, p + 4, 4) THEN Throw(RangeError)
  ELSE IF ReadInt32LE(buffer, p + 4) = -1 THEN Throw("Unknown file table format")
  ELSE IF ~CanAccess(buffer, p + 8, sh.extra - (p + 8)) THEN Throw(RangeError)
  ELSE HeaderRecord(buffer, p, format, sh, ReadName(buffer, sh, format, unicode, bigEndian))

ReadHeaderShaped(buffer, p, format, unicode, bigEndian, sh) ==
  IF ~CanAccess(buffer, p, 1) \/ ~CanAccess(buffer, p + 4, 4) THEN Throw(RangeError)
  ELSE IF ReadInt32LE(buffer, p + 4) # -1 THEN Throw("Unknown file table format")
  ELSE IF ~CanAccess(buffer, p + 8, sh.extra - (p + 8)) THEN Throw(RangeError)
  ELSE HeaderRecord(buffer, p, format, sh, ReadName(buffer, sh, format, unicode, bigEndian))

\* One iteration of readGameFileHeaders' loop: the header, and the cursor
\* after it.
ReadGameFileHeader(buffer, p, format, unicode, bigEndian) ==
  ReadHeaderShaped(buffer, p, format, unicode, bigEndian, HeaderShape(p, format))

RECURSIVE ReadHeadersFrom(_, _, _, _, _, _, _, _)
ReadHeadersNext(buffer, i, fileCount, format, unicode, bigEndian, headers, h) ==
  IF Failed(h) THEN h
  ELSE ReadHeadersFrom(buffer, h.offset, i + 1, fileCount, format, unicode,
                       bigEndian, Append(headers, h.header))

ReadHeadersFrom(buffer, p, i, fileCount, format, unicode, bigEndian, headers) ==
  IF i >= fileCount THEN [headers |-> headers, offset |-> p]
  ELSE ReadHeadersNext(buffer, i, fileCount, format, unicode, bigEndian, headers,
                       ReadGameFileHeader(buffer, p, format, unicode, bigEndian))

readGameFileHeaders(buffer, offset, fileCount, format, unicode, bigEndian) ==
  ReadHeadersFrom(buffer, offset, 0, fileCount, format, unicode, bigEndian, <<>>)

\* readGameFiles: each entry's bytes are the slice at its data offset.
readGameFiles(buffer, gameFileHeaders) ==
  [i \in 1..Len(gameFileHeaders) |->
     [header |-> gameFileHeaders[i],
      data   |-> Slice(buffer, Clamp(gameFileHeaders[i].dataOffset),
                       Clamp(gameFileHeaders[i].dataOffset)
                         + Clamp(gameFileHeaders[i].compressedSize))]]

(***************************************************************************)
(* Slot extractor and save header codec.                                   *)
(***************************************************************************)
WhiteSpace == {9, 10, 11, 12, 13, 32, 160, 5760, 8232, 8233, 8239, 8287, 12288, 65279}
                \cup (8192..8202)

RECURSIVE DropLeading(_, _)
DropLeading(str, S) ==
  IF Len(str) > 0 /\ str[1] \in S THEN DropLeading(Tail(str), S) ELSE str

RECURSIVE DropTrailing(_, _)
DropTrailing(str, S) ==
  IF Len(str) > 0 /\ str[Len(str)] \in S
    THEN DropTrailing(SubSeq(str, 1, Len(str) - 1), S) ELSE str

\* String.prototype.trim
Trim(str) == DropTrailing(DropLeading(str, WhiteSpace), WhiteSpace)

\* str.replace(/\0/g, '')
RECURSIVE RemoveNul(_)
RemoveNul(str) ==
  IF Len(str) = 0 THEN <<>>
  ELSE IF str[1] = 0 THEN RemoveNul(Tail(str))
  ELSE <<str[1]>> \o RemoveNul(Tail(str))

StartsWith(str, prefix) ==
  Len(str) >= Len(prefix) /\ SubSeq(str, 1, Len(prefix)) = prefix

\* parseInt(str): leading white space, an optional sign, then the longest
\* run of decimal digits (of hexadecimal digits after 0x); NaN without one.
DigitValue(c) ==
  IF c >= 48 /\ c <= 57 THEN c - 48
  ELSE IF c >= 97 /\ c <= 102 THEN c - 87
  ELSE IF c >= 65 /\ c <= 70 THEN c - 55
  ELSE 99

RECURSIVE Digits(_, _, _, _)
Digits(str, radix, value, seen) ==
  IF Len(str) > 0 /\ DigitValue(str[1]) < radix
    THEN Digits(Tail(str), radix, value * radix + DigitValue(str[1]), TRUE)
    ELSE [value |-> value, seen |-> seen]

ParseDigits(neg, d) ==
  [nan |-> ~d.seen, value |-> IF ~d.seen THEN 0 ELSE IF neg THEN -d.value ELSE d.value]

ParseUnsigned(neg, u) ==
  ParseDigits(neg, IF Len(u) >= 2 /\ u[1] = 48 /\ u[2] \in {88, 120}
                     THEN Digits(Tail(Tail(u)), 16, 0, FALSE)
                     ELSE Digits(u, 10, 0, FALSE))

ParseSigned(t) ==
  ParseUnsigned(Len(t) > 0 /\ t[1] = 45,
                IF Len(t) > 0 /\ t[1] \in {43, 45} THEN Tail(t) ELSE t)

parseInt(str) == ParseSigned(DropLeading(str, WhiteSpace))

\* "Empty Slot"
EmptySlotName == <<69, 109, 112, 116, 121, 32, 83, 108, 111, 116>>

NameOrEmpty(characterName) ==
  IF characterName = <<>> THEN EmptySlotName ELSE characterName

extractSaveHeaderInfo(headerData) ==
  IF ~CanAccess(headerData, 34, 4) \/ ~CanAccess(headerData, 38, 4)
    THEN Throw(RangeError)
    ELSE [characterName  |-> NameOrEmpty(Trim(RemoveNul(Utf16leString(
                                           Slice(headerData, 0, 34))))),
          characterLevel |-> ReadInt32LE(headerData, 34),
          secondsPlayed  |-> ReadInt32LE(headerData, 38)]

\* A slot extractor that drops the first byte of the save data: the
\* variant of SaveDataOf that the round trip of C8 must tell apart.
SaveDataOfShort(data) == SliceFrom(data, CHECKSUM_LENGTH + 1)

\* gameFile.data.slice(0, CHECKSUM_LENGTH) and gameFile.data.slice(CHECKSUM_LENGTH)
SaveDataChecksumOf(data) == Slice(data, 0, CHECKSUM_LENGTH)
SaveDataOf(data) == SliceFrom(data, CHECKSUM_LENGTH)

\* The save pushed by processSaves' loop.
SaveRecord(buffer, gameFile, parsed, headerData, saveHeaderInfo) ==
  IF IsThrow(saveHeaderInfo) THEN saveHeaderInfo
  ELSE [index |-> parsed.value,
        active |-> ~parsed.nan
                     /\ CanAccess(buffer, ACTIVE_SAVE_SLOT_OFFSET + parsed.value, 1)
                     /\ At(buffer, ACTIVE_SAVE_SLOT_OFFSET + parsed.value) = 1,
        gameFile |-> gameFile,
        saveHeaderInfo |-> saveHeaderInfo,
        headerData |-> headerData,
        saveDataChecksum |-> SaveDataChecksumOf(gameFile.data),
        saveData |-> SaveDataOf(gameFile.data)]

SaveWithHeader(buffer, gameFile, parsed, headerData) ==
  SaveRecord(buffer, gameFile, parsed, headerData, extractSaveHeaderInfo(headerData))

\* The body of processSaves' loop for an entry that is not skipped.  With
\* an index of NaN the seek and the slice run at NaN: the slice is empty.
ProcessSave(buffer, gameFile, parsed) ==
  SaveWithHeader(buffer, gameFile, parsed,
                 IF parsed.nan THEN EmptyBuf
                 ELSE Slice(buffer, HEADER_DATA_OFFSET + parsed.value * HEADER_DATA_LENGTH,
                            HEADER_DATA_OFFSET + parsed.value * HEADER_DATA_LENGTH
                              + HEADER_DATA_LENGTH))

\* A sort that leaves the saves in the order of the entry table: the
\* variant of SortByIndex that the ordering of C14 must tell apart.
SortByIndexKeep(saves, sorted) == saves

\* saves.sort((a, b) => a.index - b.index): a stable sort
RECURSIVE InsertByIndex(_, _)
InsertByIndex(sorted, save) ==
  IF Len(sorted) = 0 THEN <<save>>
  ELSE IF sorted[Len(sorted)].index <= save.index THEN Append(sorted, save)
  ELSE Append(InsertByIndex(SubSeq(sorted, 1, Len(sorted) - 1), save), sorted[Len(sorted)])

RECURSIVE SortByIndex(_, _)
SortByIndex(saves, sorted) ==
  IF Len(saves) = 0 THEN sorted
  ELSE SortByIndex(Tail(saves), InsertByIndex(sorted, saves[1]))

RECURSIVE ProcessSavesFrom(_, _, _, _)
PushSave(buffer, gameFiles, i, saves, save) ==
  IF IsThrow(save) THEN save
  ELSE ProcessSavesFrom(buffer, gameFiles, i + 1, Append(saves, save))

ProcessIndexed(buffer, gameFiles, i, saves, index) ==
  IF ~index.nan /\ index.value > 9
    THEN ProcessSavesFrom(buffer, gameFiles, i + 1, saves)
    ELSE PushSave(buffer, gameFiles, i, saves, ProcessSave(buffer, gameFiles[i], index))

ProcessNamed(buffer, gameFiles, i, saves, name) ==
  IF Len(name) = 0 \/ ~StartsWith(name, SAVE_IDENTIFIER)
    THEN ProcessSavesFrom(buffer, gameFiles, i + 1, saves)
    ELSE ProcessIndexed(buffer, gameFiles, i, saves,
                        parseInt(SubSeq(name, Len(SAVE_IDENTIFIER) + 1, Len(name))))

ProcessSavesFrom(buffer, gameFiles, i, saves) ==
  IF i > Len(gameFiles) THEN [saves |-> SortByIndex(saves, <<>>)]
  ELSE ProcessNamed(buffer, gameFiles, i, saves, gameFiles[i].header.name)

processSaves(buffer, gameFiles) == ProcessSavesFrom(buffer, gameFiles, 1, <<>>)

BadMagic == "Invalid save file format. Expected BND4."

\* The container parseSaveFile returns.
Container(buffer, bitBigEndian, format, headers, gameFiles, saves) ==
  IF IsThrow(saves) THEN saves
  ELSE [bigEndian |-> ReadUInt8(buffer, 9) # 0,
        bitBigEndian |-> bitBigEndian,
        fileCount |-> ReadInt32LE(buffer, 12),
        headerSize |-> ReadBigInt64LE(buffer, 16),
        version |-> AsciiString(buffer, 24, 32),
        fileHeaderSize |-> ReadBigInt64LE(buffer, 32),
        unicode |-> ReadUInt8(buffer, 48) # 0,
        rawFormat |-> ReadUInt8(buffer, 49),
        format |-> format,
        extended |-> ReadUInt8(buffer, 50),
        gameFileHeaders |-> headers.headers,
        gameFiles |-> gameFiles,
        saves |-> saves.saves,
        buffer |-> buffer]

ParseGameFiles(buffer, bitBigEndian, format, headers, gameFiles) ==
  Container(buffer, bitBigEndian, format, headers, gameFiles,
            processSaves(buffer, gameFiles))

ParseEntries(buffer, bitBigEndian, format, headers) ==
  IF Failed(headers) THEN headers
  ELSE ParseGameFiles(buffer, bitBigEndian, format, headers,
                      readGameFiles(buffer, headers.headers))

ParseFormatted(buffer, bitBigEndian, format) ==
  ParseEntries(buffer, bitBigEndian, format,
               readGameFileHeaders(buffer, 64, ReadInt32LE(buffer, 12), format,
                                   ReadUInt8(buffer, 48) # 0, ReadUInt8(buffer, 9) # 0))

parseSaveFile(buffer) ==
  IF AsciiString(buffer, 0, 4) # BND4 THEN Throw(BadMagic)
  ELSE IF ~(/\ CanAccess(buffer, 9, 1) /\ CanAccess(buffer, 10, 1)
            /\ CanAccess(buffer, 12, 4) /\ CanAccess(buffer, 16, 8)
            /\ CanAccess(buffer, 32, 8) /\ CanAccess(buffer, 48, 1)
            /\ CanAccess(buffer, 49, 1) /\ CanAccess(buffer, 50, 1))
    THEN Throw(RangeError)
  ELSE ParseFormatted(buffer, ~(ReadUInt8(buffer, 10) # 0),
                      ResolveFormat(ReadUInt8(buffer, 49), ~(ReadUInt8(buffer, 10) # 0)))

(***************************************************************************)
(* Checksum engine.                                                        *)
(***************************************************************************)
\* A checksum engine that stores the digest of a slot at the start of the
\* data it hashes: the variant of RecalculateSlot that the idempotence of
\* C6 must tell apart.
RecalculateSlotInside(buffer, i) ==
  CopyInto(Md5(Slice(buffer, slotDataIndex0 + i * slotStride,
                     slotDataIndex0 + i * slotStride + slotLength + 1)),
           buffer, slotDataIndex0 + i * slotStride)

\* One iteration of recalculateChecksums' loop, for slot window i.
StoreDigest(buffer, newChecksum, currentChecksum, checksumIndex) ==
  IF newChecksum # Slice(currentChecksum, 0, newChecksum.len)
    THEN CopyInto(newChecksum, buffer, checksumIndex)
    ELSE buffer

RecalculateSlot(buffer, i) ==
  StoreDigest(buffer,
              Md5(Slice(buffer, slotDataIndex0 + i * slotStride,
                        slotDataIndex0 + i * slotStride + slotLength + 1)),
              Slice(buffer, checksumIndex0 + i * slotStride,
                    checksumIndex0 + i * slotStride + checksumLength + 1),
              checksumIndex0 + i * slotStride)

RECURSIVE RecalculateSlots(_, _)
RecalculateSlots(buffer, i) ==
  IF buffer.len >= 0 /\ i = 10 THEN buffer ELSE RecalculateSlots(RecalculateSlot(buffer, i), i + 1)

\* A general digest over a range that stops one byte early: the variant of
\* StoreGeneralDigest that the section digest of C24 must tell apart.
StoreGeneralDigestShort(b) ==
  CopyInto(Md5(Slice(b, generalDataStart, generalDataEnd)), b, generalChecksumStart)

\* The buffer as recalculateChecksums leaves it (it rewrites it in place).
StoreGeneralDigest(b) ==
  CopyInto(Md5(Slice(b, generalDataStart, generalDataEnd + 1)), b, generalChecksumStart)

recalculateChecksums(buffer) == StoreGeneralDigest(RecalculateSlots(buffer, 0))

(***************************************************************************)
(* Stats locator and codec.                                                *)
(***************************************************************************)
statNames == <<"vigor", "mind", "endurance", "strength", "dexterity",
               "intelligence", "faith", "arcane">>

\* slotOffsets[slotIndex] and slotLengths[slotIndex]: tables of 10 entries
SlotOffsetOf(slotIndex) == firstSlotOffset + slotIndex * slotStride

SlotDataOf(buffer, slotIndex) ==
  IF slotIndex \in 0..9
    THEN Slice(buffer, SlotOffsetOf(slotIndex), SlotOffsetOf(slotIndex) + slotWindowLength)
    ELSE EmptyBuf

PotentialStats(slotData, i) == [k \in 1..8 |-> ReadUInt8(slotData, i + 4 * (k - 1))]

RECURSIVE SumSeq(_)
SumSeq(q) == IF Len(q) = 0 THEN 0 ELSE q[1] + SumSeq(Tail(q))

\* the test of the scan at offset i
StatsMatch(slotData, i, level) ==
  /\ SumSeq(PotentialStats(slotData, i)) = level + levelBase
  /\ ReadUInt16LE(slotData, i + 44) = level

\* A scan that visits one offset more: the variant of ScanBound that the
\* not-found report of C10 must tell apart.
ScanBoundWide(slotData) == Min(scanLimit + 1, slotData.len - scanTail)

\* The offsets the scan visits: i = 0 .. min(120000, length - 50) - 1.
ScanBound(slotData) == Min(scanLimit, slotData.len - scanTail)

\* The scan stops at its first match.  level + 79 is positive, so a window
\* of eight zero bytes never matches: the matches lie among the windows
\* that hold a non-zero byte.
ScanMatches(slotData, level) ==
  {i \in {o - 4 * k : o \in DOMAIN slotData.nz, k \in 0..7} :
     i >= 0 /\ i < ScanBound(slotData) /\ StatsMatch(slotData, i, level)}

FirstOf(S) == CHOOSE i \in S : \A j \in S : i <= j

\* the three positions of a resource, `first` bytes before the stats
ResourceOffsets(origin, first) == <<origin - first, origin - first + 4, origin - first + 8>>
ReadTriple(slotData, at) == [k \in 1..3 |-> ReadUInt16LE(slotData, at[k])]
CanReadTriple(slotData, at) == \A k \in 1..3 : CanAccess(slotData, at[k], 2)
Shifted(slotOffset, at) == [k \in 1..3 |-> slotOffset + at[k]]

\* What getCharacterStats returns for a match at statsOffset.  A read
\* before the start of the slot data throws, and the outer catch turns
\* that into null.
StatsFound(slotIndex, level, slotData, statsOffset) ==
  IF ~(/\ CanReadTriple(slotData, ResourceOffsets(statsOffset, 44))
       /\ CanReadTriple(slotData, ResourceOffsets(statsOffset, 16))
       /\ CanReadTriple(slotData, ResourceOffsets(statsOffset, 32)))
    THEN Null
    ELSE [slotIndex |-> slotIndex,
          level |-> level,
          statsOffset |-> SlotOffsetOf(slotIndex) + statsOffset,
          stats |-> PotentialStats(slotData, statsOffset),
          hp |-> ReadTriple(slotData, ResourceOffsets(statsOffset, 44)),
          stamina |-> ReadTriple(slotData, ResourceOffsets(statsOffset, 16)),
          fp |-> ReadTriple(slotData, ResourceOffsets(statsOffset, 32)),
          hpOffsets |-> Shifted(SlotOffsetOf(slotIndex), ResourceOffsets(statsOffset, 44)),
          staminaOffsets |-> Shifted(SlotOffsetOf(slotIndex),
                                     ResourceOffsets(statsOffset, 16)),
          fpOffsets |-> Shifted(SlotOffsetOf(slotIndex), ResourceOffsets(statsOffset, 32))]

\* if (!statsFound) return null
LocateStats(slotIndex, level, slotData, matches) ==
  IF matches = {} THEN Null
  ELSE StatsFound(slotIndex, level, slotData, FirstOf(matches))

ScanSlot(slotIndex, level, slotData) ==
  LocateStats(slotIndex, level, slotData, ScanMatches(slotData, level))

LevelOffsetOf(slotIndex) == baseLevelOffset + slotIndex * HEADER_DATA_LENGTH

getCharacterStats(buffer, slotIndex) ==
  IF LevelOffsetOf(slotIndex) + 2 > buffer.len THEN Null
  ELSE IF ~CanAccess(buffer, LevelOffsetOf(slotIndex), 2) THEN Null
  ELSE ScanSlot(slotIndex, ReadUInt16LE(buffer, LevelOffsetOf(slotIndex)),
                SlotDataOf(buffer, slotIndex))

hpTable ==
  <<
     300, 304, 312, 322, 334, 347, 362, 378, 396, 414,
     434, 455, 476, 499, 522, 547, 572, 598, 624, 652,
     680, 709, 738, 769, 800, 833, 870, 910, 951, 994,
     1037, 1081, 1125, 1170, 1216, 1262, 1308, 1355, 1402, 1450,
     1476, 1503, 1529, 1555, 1581, 1606, 1631, 1656, 1680, 1704,
     1727, 1750, 1772, 1793, 1814, 1834, 1853, 1871, 1887, 1900,
     1906, 1912, 1918, 1924, 1930, 1936, 1942, 1948, 1954, 1959,
     1965, 1971, 1977, 1982, 1988, 1993, 1999, 2004, 2010, 2015,
     2020, 2026, 2031, 2036, 2041, 2046, 2051, 2056, 2060, 2065,
     2070, 2074, 2078, 2082, 2086, 2090, 2094, 2097, 2100
  >>

fpTable ==
  <<
     40, 43, 46, 49, 52, 55, 58, 62, 65, 68,
     71, 74, 77, 81, 84, 87, 90, 93, 96, 100,
     106, 112, 118, 124, 130, 136, 142, 148, 154, 160,
     166, 172, 178, 184, 190, 196, 202, 208, 214, 220,
     226, 232, 238, 244, 250, 256, 262, 268, 274, 280,
     288, 297, 305, 313, 321, 328, 335, 341, 346, 350,
     352, 355, 357, 360, 362, 365, 367, 370, 373, 375,
     378, 380, 383, 385, 388, 391, 393, 396, 398, 401,
     403, 406, 408, 411, 414, 416, 419, 421, 424, 426,
     429, 432, 434, 437, 439, 442, 444, 447, 450
  >>

staminaTable ==
  <<
     80, 81, 82, 84, 85, 87, 88, 90, 91, 92,
     94, 95, 97, 98, 100, 101, 103, 105, 106, 108,
     110, 111, 113, 115, 116, 118, 120, 121, 123, 125,
     126, 128, 129, 131, 132, 134, 135, 137, 138, 140,
     141, 143, 144, 146, 147, 149, 150, 152, 153, 155,
     155, 155, 155, 156, 156, 156, 157, 157, 157, 158,
     158, 158, 158, 159, 159, 159, 160, 160, 160, 161,
     161, 161, 162, 162, 162, 162, 163, 163, 163, 164,
     164, 164, 165, 165, 165, 166, 166, 166, 166, 167,
     167, 167, 168, 168, 168, 169, 169, 169, 170
  >>

\* A lookup that falls back to the first value of the table: the variant of
\* Lookup that the derived resources of C21 must tell apart.
LookupFirst(table, v) == IF v \in 1..99 THEN table[v] ELSE table[1]

\* table[Math.min(v, 99)] || table[99]
Lookup(table, v) == IF Min(v, 99) \in 1..99 THEN table[Min(v, 99)] ELSE table[99]

calculateHP(vigor) == Lookup(hpTable, vigor)
calculateFP(mind) == Lookup(fpTable, mind)
calculateStamina(endurance) == Lookup(staminaTable, endurance)

\* A copy that shares the memory of its argument: the variant of BufferFrom
\* that the copy-on-write of C11 must tell apart.
BufferFromShared(buffer) == [object |-> "argument", bytes |-> buffer]

\* Buffer.from(buffer): a new Buffer object that holds a copy of the bytes.
\* The writes of a call go to one object, the caller's argument or the copy.
BufferFrom(buffer) == [object |-> "copy", bytes |-> buffer]

\* The bytes of the caller's argument once the call is over, when the
\* object the call wrote to holds bytesAfter.
ArgumentAfter(buffer, modifiedBuffer, bytesAfter) ==
  IF modifiedBuffer.object = "argument" THEN bytesAfter ELSE buffer

\* A run of writes on the copy, in order; the first one that throws ends it.
RECURSIVE WriteAll(_, _)
WriteNext(b, writes) == IF IsThrow(b) THEN b ELSE WriteAll(b, Tail(writes))

WriteOne(buffer, w) ==
  IF w.width = 1 THEN WriteUInt8(buffer, w.value, w.offset)
  ELSE WriteUInt16LE(buffer, w.value, w.offset)

WriteAll(buffer, writes) ==
  IF Len(writes) = 0 THEN buffer
  ELSE WriteNext(WriteOne(buffer, writes[1]), writes)

\* The bytes a run of writes leaves behind: those of the writes before the
\* first one that throws.
RECURSIVE WrittenBy(_, _)
WrittenByNext(buffer, writes, b) ==
  IF IsThrow(b) THEN buffer ELSE WrittenBy(b, Tail(writes))

WrittenBy(buffer, writes) ==
  IF Len(writes) = 0 THEN buffer
  ELSE WrittenByNext(buffer, writes, WriteOne(buffer, writes[1]))

Write8(v, o) == [width |-> 1, value |-> v, offset |-> o]
Write16(v, o) == [width |-> 2, value |-> v, offset |-> o]

NoOptions == [godMode |-> FALSE, customAttributes |-> FALSE]

\* A resource branch that looks at customAttributes first: the variant of
\* ResourceWrites that the god mode of C5 must tell apart.
ResourceWritesCustomFirst(currentStats, newStats, options) ==
  IF options.customAttributes
    THEN [k \in 1..3 |-> [width |-> 2, value |-> calculateHP(newStats[1]),
                          offset |-> currentStats.hpOffsets[k]]]
           \o [k \in 1..3 |-> [width |-> 2, value |-> calculateFP(newStats[2]),
                               offset |-> currentStats.fpOffsets[k]]]
           \o [k \in 1..3 |-> [width |-> 2, value |-> calculateStamina(newStats[3]),
                               offset |-> currentStats.staminaOffsets[k]]]
  ELSE IF options.godMode
    THEN [k \in 1..3 |-> [width |-> 2, value |-> GOD_MODE_VALUE,
                          offset |-> currentStats.hpOffsets[k]]]
           \o [k \in 1..3 |-> [width |-> 2, value |-> GOD_MODE_VALUE,
                               offset |-> currentStats.fpOffsets[k]]]
           \o [k \in 1..3 |-> [width |-> 2, value |-> GOD_MODE_VALUE,
                               offset |-> currentStats.staminaOffsets[k]]]
  ELSE <<>>

\* The writes of the resource branch of setCharacterStats.
ResourceWrites(currentStats, newStats, options) ==
  IF options.godMode
    THEN [k \in 1..3 |-> Write16(GOD_MODE_VALUE, currentStats.hpOffsets[k])]
           \o [k \in 1..3 |-> Write16(GOD_MODE_VALUE, currentStats.fpOffsets[k])]
           \o [k \in 1..3 |-> Write16(GOD_MODE_VALUE, currentStats.staminaOffsets[k])]
  ELSE IF options.customAttributes
    THEN [k \in 1..3 |-> Write16(calculateHP(newStats[1]), currentStats.hpOffsets[k])]
           \o [k \in 1..3 |-> Write16(calculateFP(newStats[2]), currentStats.fpOffsets[k])]
           \o [k \in 1..3 |-> Write16(calculateStamina(newStats[3]),
                                      currentStats.staminaOffsets[k])]
  ELSE <<>>

\* The 16-bit write of the level into the slot's summary record.
HeaderLevelWrite(newLevel, slotIndex) ==
  <<Write16(newLevel, baseLevelOffset + slotIndex * HEADER_DATA_LENGTH)>>

\* Attributes written as 16-bit values: the variant of StatWrites that the
\* frame of C22 must tell apart.
StatWritesWide(currentStats, slotIndex, newStats) ==
  [index \in 1..8 |->
     Write16(newStats[index], currentStats.statsOffset + (index - 1) * 4)]

\* The writes on the attributes: one byte each, four bytes apart.
StatWrites(currentStats, slotIndex, newStats) ==
  [index \in 1..8 |->
     Write8(newStats[index],
            (firstSlotOffset + slotIndex * slotStride)
              + (currentStats.statsOffset - (firstSlotOffset + slotIndex * slotStride)
                   + (index - 1) * 4))]

\* An end of setCharacterStats that returns the copy as the writes left it:
\* the variant of FinishStats that the slot digests of C23 must tell apart.
FinishStatsWritten(written) ==
  IF IsThrow(written) THEN Throw("Failed to set character stats: RangeError")
  ELSE written

\* The end of setCharacterStats: the digests are recalculated on the copy.
FinishStats(written) ==
  IF IsThrow(written) THEN Throw("Failed to set character stats: RangeError")
  ELSE recalculateChecksums(written)

NewLevelOf(newStats) == SumSeq(newStats) - levelBase

\* The writes of setCharacterStats on modifiedBuffer, in order.
StatsWrites(slotIndex, newStats, options, currentStats) ==
  StatWrites(currentStats, slotIndex, newStats)
    \o <<Write16(NewLevelOf(newStats), currentStats.statsOffset + 44)>>
    \o HeaderLevelWrite(NewLevelOf(newStats), slotIndex)
    \o ResourceWrites(currentStats, newStats, options)

SetStats(buffer, slotIndex, newStats, options, currentStats) ==
  IF IsNull(currentStats)
    THEN Throw("Failed to set character stats: Could not find character stats")
    ELSE FinishStats(WriteAll(BufferFrom(buffer).bytes,
                              StatsWrites(slotIndex, newStats, options, currentStats)))

\* The bytes of modifiedBuffer when setCharacterStats is over: the buffer
\* it returns, or what the writes before the error left.  Without stats
\* the call throws before it writes.
StatsLeft(buffer, slotIndex, newStats, options, currentStats, returned) ==
  IF IsNull(currentStats) THEN buffer
  ELSE IF IsThrow(returned)
    THEN WrittenBy(buffer, StatsWrites(slotIndex, newStats, options, currentStats))
    ELSE returned

\* newStats is the sequence of the eight attributes in the order of statNames.
setCharacterStats(buffer, slotIndex, newStats, options) ==
  SetStats(buffer, slotIndex, newStats, options, getCharacterStats(buffer, slotIndex))

(***************************************************************************)
(* Transfer and extract operations.                                        *)
(***************************************************************************)
\* A search that takes the slot at position targetSlotIndex of the list:
\* the variant of FindSave that the not-found error of C17 must tell apart.
FindSaveAt(saves, targetSlotIndex) ==
  IF targetSlotIndex + 1 \in 1..Len(saves) THEN saves[targetSlotIndex + 1] ELSE Null

\* targetSaveFile.saves.find(save => save.index === targetSlotIndex)
FindSave(saves, targetSlotIndex) ==
  LET found == {i \in 1..Len(saves) : saves[i].index = targetSlotIndex}
  IN  IF found = {} THEN Null ELSE saves[FirstOf(found)]

\* The data copy of copySave: the source's save data, whatever its length,
\* lands right after the target entry's 16-byte digest.
CopySaveData(sourceSaveData, updatedBuffer, dataOffset) ==
  CopyInto(sourceSaveData, updatedBuffer, dataOffset + CHECKSUM_LENGTH)

\* The last write of copySave: the digest of the save-headers section.
CopyHeadersDigest(updatedBuffer) ==
  CopyInto(Md5(Slice(updatedBuffer, SAVE_HEADERS_SECTION_OFFSET,
                     SAVE_HEADERS_SECTION_OFFSET + SAVE_HEADERS_SECTION_LENGTH)),
           updatedBuffer, SAVE_HEADERS_SECTION_OFFSET - CHECKSUM_LENGTH)

\* The writes of copySave on the copy of the target buffer, in order.
CopyWrites(sourceSave, updatedBuffer, targetSlotIndex, dataOffset) ==
  CopyHeadersDigest(
    CopyInto(Md5(sourceSave.saveData),
      SetByte(
        CopyInto(sourceSave.headerData,
          CopySaveData(sourceSave.saveData,
            CopyInto(sourceSave.saveDataChecksum, updatedBuffer, dataOffset),
            dataOffset),
          HEADER_DATA_OFFSET + targetSlotIndex * HEADER_DATA_LENGTH),
        ACTIVE_SAVE_SLOT_OFFSET + targetSlotIndex, 1),
      dataOffset))

\* `Failed to copy save: Target save slot ${targetSlotIndex} not found`
TargetSlotNotFound == "Failed to copy save: Target save slot not found"

CopyToSlot(sourceSave, targetSaveFile, targetSlotIndex, targetSave) ==
  IF IsNull(targetSave) THEN Throw(TargetSlotNotFound)
  ELSE IF Clamp(targetSave.gameFile.header.dataOffset) < 0
            \/ HEADER_DATA_OFFSET + targetSlotIndex * HEADER_DATA_LENGTH < 0
    THEN Throw("Failed to copy save: RangeError")
    ELSE CopyWrites(sourceSave, BufferFrom(targetSaveFile.buffer).bytes, targetSlotIndex,
                    Clamp(targetSave.gameFile.header.dataOffset))

\* The bytes of updatedBuffer when copySave is over: the buffer it returns,
\* or what the copies before the error left.
CopyLeft(sourceSave, targetSaveFile, targetSlotIndex, targetSave, returned) ==
  IF ~IsThrow(returned) THEN returned
  ELSE IF IsNull(targetSave) \/ Clamp(targetSave.gameFile.header.dataOffset) < 0
    THEN targetSaveFile.buffer
    ELSE CopySaveData(sourceSave.saveData,
           CopyInto(sourceSave.saveDataChecksum, targetSaveFile.buffer,
                    Clamp(targetSave.gameFile.header.dataOffset)),
           Clamp(targetSave.gameFile.header.dataOffset))

copySave(sourceSave, targetSaveFile, targetSlotIndex) ==
  CopyToSlot(sourceSave, targetSaveFile, targetSlotIndex,
             FindSave(targetSaveFile.saves, targetSlotIndex))

\* zstd.compress and zstd.decompress: a frame that holds the data, lossless.
ZstdCompress(data) == [frame |-> data]
ZstdDecompress(compressedData) == compressedData.frame

\* extractSave: the file it writes and the sizes it reports.
ExtractCombined(save) == Concat2(Concat2(save.headerData, save.saveDataChecksum), save.saveData)

extractSave(save) ==
  [written |-> ZstdCompress(ExtractCombined(save)),
   originalSize |-> ExtractCombined(save).len]

\* What loadExtractedSave returns for the decompressed bytes.
SplitExtracted(decompressedData, headerData, saveHeaderInfo) ==
  IF IsThrow(saveHeaderInfo) THEN Throw("Failed to load extracted save: RangeError")
  ELSE [saveHeaderInfo |-> saveHeaderInfo,
        headerData |-> headerData,
        saveDataChecksum |-> Slice(decompressedData, HEADER_DATA_LENGTH,
                                   HEADER_DATA_LENGTH + CHECKSUM_LENGTH),
        saveData |-> SliceFrom(decompressedData, HEADER_DATA_LENGTH + CHECKSUM_LENGTH),
        decompressedSize |-> decompressedData.len]

LoadHeader(decompressedData, headerData) ==
  SplitExtracted(decompressedData, headerData, extractSaveHeaderInfo(headerData))

loadExtractedSave(compressedData) ==
  LoadHeader(ZstdDecompress(compressedData),
             Slice(ZstdDecompress(compressedData), 0, HEADER_DATA_LENGTH))

(***************************************************************************)
(* Input files.  A file is laid out the way parseSaveFile reads it: the    *)
(* 64-byte archive header, the entry headers in the shape of the resolved  *)
(* format, the UTF-16 names, and the slots at the offsets of the format.   *)
(***************************************************************************)
\* Number of USER_DATA00i slot entries of the generated containers.
NumSlots == 3

SeqBuf(q) == MkBuf(Len(q), 0..(Len(q) - 1), [o \in 0..(Len(q) - 1) |-> q[o + 1]])
Blank(len) == [len |-> len, nz |-> NoBytes]
Put(b, o, q) == CopyInto(SeqBuf(q), b, o)

LE16(v) == <<v % 256, (v \div 256) % 256>>
LE32(v) == IF v < 0 THEN <<(v + 256) % 256, 255, 255, 255>>
           ELSE <<v % 256, (v \div 256) % 256, (v \div 65536) % 256, (v \div 16777216) % 256>>
LE64(v) == LE32(v) \o (IF v < 0 THEN <<255, 255, 255, 255>> ELSE <<0, 0, 0, 0>>)
Utf16le(str) == [i \in 1..(2 * Len(str)) |-> IF i % 2 = 1 THEN str[(i + 1) \div 2] ELSE 0]
\* every fourth byte, as the eight attributes are stored
Strided(q) == [i \in 1..(4 * Len(q) - 3) |-> IF i % 4 = 1 THEN q[(i + 3) \div 4] ELSE 0]

RECURSIVE PutAll(_, _)
PutAll(b, patches) ==
  IF b.len >= 0 /\ Len(patches) = 0 THEN b
  ELSE PutAll(Put(b, patches[1].at, patches[1].bytes), Tail(patches))

RECURSIVE Flatten(_)
Flatten(seqs) == IF Len(seqs) = 0 THEN <<>> ELSE seqs[1] \o Flatten(Tail(seqs))

Patch(at, bytes) == [at |-> at, bytes |-> bytes]

\* the entry headers and the name table for a list of entries
EntryPatches(entries, rawFormat, bitFlag) ==
  LET format   == ResolveFormat(rawFormat, bitFlag = 0)
      size     == HeaderShape(0, format).end
      nameBase == 64 + Len(entries) * size
      nameAt(i) == nameBase + 26 * (i - 1)
      one(i) ==
        LET sh == HeaderShape(64 + (i - 1) * size, format)
            e  == entries[i]
        IN  <<Patch(64 + (i - 1) * size, <<80, 0, 0, 0>> \o LE32(e.sentinel)),
              Patch(64 + (i - 1) * size + 8, LE64(e.size)),
              Patch(sh.uncompressed, IF Bit(format, 32) THEN LE64(e.size) ELSE <<>>),
              Patch(sh.dataOffset, IF Bit(format, 16) THEN LE64(e.offset) ELSE LE32(e.offset)),
              Patch(sh.nameOffset, IF Bit(format, 4) \/ Bit(format, 8)
                                     THEN LE32(nameAt(i)) ELSE <<>>),
              Patch(nameAt(i), Utf16le(e.name))>>
  IN  Flatten([i \in 1..Len(entries) |-> one(i)])

\* the archive header
HeaderPatches(magic, bitFlag, fileCount, unicode, rawFormat) ==
  <<Patch(0, magic), Patch(10, <<bitFlag>>), Patch(12, LE32(fileCount)),
    Patch(16, LE64(64)), Patch(24, <<48, 48, 48, 48, 48, 48, 48, 49>>),
    Patch(32, LE64(32)), Patch(48, <<unicode>>), Patch(49, <<rawFormat>>)>>

MkFile(len, magic, bitFlag, unicode, rawFormat, entries, content) ==
  PutAll(Blank(len),
         HeaderPatches(magic, bitFlag, Len(entries), unicode, rawFormat)
           \o EntryPatches(entries, rawFormat, bitFlag) \o content)

Entry(name, offset, size) == [name |-> name, offset |-> offset, size |-> size, sentinel |-> -1]

\* "USER_DATA00i" for a digit i
UserData(i) == SAVE_IDENTIFIER \o <<48, 48, 48 + i>>
\* "USER_DATA010", the entry of the save-headers section
UserData010 == SAVE_IDENTIFIER \o <<48, 49, 48>>

SlotEntrySize == slotWindowLength + CHECKSUM_LENGTH

StdEntries ==
  [i \in 1..NumSlots |-> Entry(UserData(i - 1), checksumIndex0 + (i - 1) * slotStride,
                               SlotEntrySize)]
    \o <<Entry(UserData010, SAVE_HEADERS_SECTION_OFFSET - CHECKSUM_LENGTH,
               SAVE_HEADERS_SECTION_LENGTH + CHECKSUM_LENGTH)>>

\* the file ends with the save-headers section
StdLen == SAVE_HEADERS_SECTION_OFFSET + SAVE_HEADERS_SECTION_LENGTH

\* raw format 0x34, bit flag 1: resolved to 0x2C, a 32-byte entry header
StdRawFormat == 32 + 16 + 4

\* A stats block in the save data of a slot: the attributes at origin, the
\* level at origin + 44, the HP/FP/stamina triples before the origin.
StatsPatches(slot, origin, attrs, level, hp, fp, stamina) ==
  LET base == SlotOffsetOf(slot) + origin
  IN  <<Patch(base, Strided(attrs)), Patch(base + 44, LE16(level))>>
        \o (IF origin >= 44
              THEN [k \in 1..3 |-> Patch(base - 44 + 4 * (k - 1), LE16(hp))]
                     \o [k \in 1..3 |-> Patch(base - 32 + 4 * (k - 1), LE16(fp))]
                     \o [k \in 1..3 |-> Patch(base - 16 + 4 * (k - 1), LE16(stamina))]
              ELSE <<>>)

\* A summary record: the name, the 32-bit level, the seconds played, and a
\* last byte so that the record is told apart over its whole length.
SummaryPatches(slot, name, level, seconds, active) ==
  LET base == HEADER_DATA_OFFSET + slot * HEADER_DATA_LENGTH
  IN  <<Patch(base, Utf16le(name)), Patch(base + 34, LE32(level)),
        Patch(base + 38, LE32(seconds)), Patch(base + HEADER_DATA_LENGTH - 1, <<slot + 1>>),
        Patch(ACTIVE_SAVE_SLOT_OFFSET + slot, <<active>>)>>

AttrsLevel25 == <<20, 10, 12, 14, 13, 9, 9, 17>>
AttrsLevel3 == <<10, 10, 10, 10, 10, 10, 10, 12>>
AttrsLevel5 == <<10, 10, 10, 10, 10, 10, 10, 14>>

\* Slot 0: "Ab", level 25, stats block at 100; at offsets 0..8 windows whose
\* attributes sum to 104 but whose level field is not 25.  Slot 1: "C",
\* level 3, stats block at 10, nearer to the start than the 44 bytes of the
\* resource triples.  Slot 2: "D", level 5, stats block at the first offset
\* the scan does not visit.  The other slots are empty.  The last byte of
\* every slot window is marked.
StdContent(level0) ==
  StatsPatches(0, 100, AttrsLevel25, 25, 800, 68, 95)
    \o <<Patch(SlotOffsetOf(0) + 8, <<104>>)>>
    \o SummaryPatches(0, <<65, 98>>, level0, 3600, 1)
    \o StatsPatches(1, 10, AttrsLevel3, 3, 0, 0, 0)
    \o SummaryPatches(1, <<67>>, 3, 60, 0)
    \o StatsPatches(2, scanLimit, AttrsLevel5, 5, 500, 50, 90)
    \o SummaryPatches(2, <<68>>, 5, 120, 0)
    \o [i \in 1..NumSlots |-> Patch(SlotOffsetOf(i - 1) + slotWindowLength - 1, <<i>>)]

\* A save as the game leaves it: every stored digest is that of its data.
Std == recalculateChecksums(MkFile(StdLen, BND4, 1, 1, StdRawFormat, StdEntries,
                                   StdContent(25)))

\* The same save edited by hand afterwards: the stored digests are stale.
Stale == Put(Std, SlotOffsetOf(0) + 5000, <<7>>)

\* A save whose 32-bit level field of slot 0 has a bit set above the low 16.
HighLevel == recalculateChecksums(MkFile(StdLen, BND4, 1, 1, StdRawFormat, StdEntries,
                                         StdContent(25 + 65536)))

\* A save cut short inside the summary record of its last slot.
TruncLen == HEADER_DATA_OFFSET + (NumSlots - 1) * HEADER_DATA_LENGTH + 100
Trunc == Slice(Std, 0, TruncLen)

\* A save whose entry of slot 0 is 16 bytes longer than a slot: its data
\* runs over the digest field of slot 1.
BigEntries ==
  [i \in 1..Len(StdEntries) |->
     IF i = 1 THEN Entry(UserData(0), checksumIndex0, SlotEntrySize + CHECKSUM_LENGTH)
     ELSE StdEntries[i]]
Big == recalculateChecksums(MkFile(StdLen, BND4, 1, 1, StdRawFormat, BigEntries,
                                   StdContent(25)
                                     \o <<Patch(SlotOffsetOf(1) + 5000, <<9>>)>>))

\* The magic with the high bit of its first byte set: 0xC2 'N' 'D' '4'.
HighBitMagic == <<194, 78, 68, 52>>
HighBit == Put(Std, 0, HighBitMagic)

\* Buffers that do not start with the magic: "BND3" in a header-sized
\* buffer, the three bytes "BND", and the empty buffer.
Bnd3 == Put(Blank(64), 0, <<66, 78, 68, 51>>)
Short == SeqBuf(<<66, 78, 68>>)

\* A save with one more entry, named "USER_DATA-1", ahead of the slots.
NegEntries ==
  <<Entry(SAVE_IDENTIFIER \o <<45, 49>>, 600, 2 * CHECKSUM_LENGTH)>> \o StdEntries
Neg == recalculateChecksums(MkFile(StdLen, BND4, 1, 1, StdRawFormat, NegEntries,
                                   StdContent(25)))

\* A save whose last slot entry bears the name of the one before it.
DupEntries ==
  [i \in 1..Len(StdEntries) |->
     IF i = NumSlots THEN Entry(UserData(NumSlots - 2), StdEntries[i].offset, SlotEntrySize)
     ELSE StdEntries[i]]
Dup == recalculateChecksums(MkFile(StdLen, BND4, 1, 1, StdRawFormat, DupEntries,
                                   StdContent(25)))

\* A save whose entry table lists the last slot first.
ShuffledEntries ==
  <<StdEntries[NumSlots]>> \o SubSeq(StdEntries, 1, NumSlots - 1)
    \o <<StdEntries[NumSlots + 1]>>
Shuffled == recalculateChecksums(MkFile(StdLen, BND4, 1, 1, StdRawFormat, ShuffledEntries,
                                        StdContent(25)))

\* Small archives: an entry named "USER_DATA" with no index after it; a
\* second entry whose sentinel field is 0; an entry whose name runs to the
\* end of the buffer with no NUL pair after it.
NoIndex == MkFile(256, BND4, 1, 1, StdRawFormat, <<Entry(SAVE_IDENTIFIER, 200, 32)>>, <<>>)
BadSentinel ==
  MkFile(256, BND4, 1, 1, StdRawFormat,
         <<Entry(<<65>>, 200, 16), [Entry(<<66>>, 216, 16) EXCEPT !.sentinel = 0]>>, <<>>)
NoNul == MkFile(64 + HeaderShape(0, ResolveFormat(StdRawFormat, FALSE)).end + 4, BND4, 1, 1,
                StdRawFormat, <<Entry(<<65, 66>>, 64, 16)>>, <<>>)

\* Std with bytes between the fields of slot 0: one in the padding after the
\* vigor, and, before the stats block, a byte of 183 at offset 46 with a
\* 16-bit 104 at offset 90, a window that matches once the level is 104.
Decoy ==
  recalculateChecksums(
    PutAll(Std, <<Patch(SlotOffsetOf(0) + 101, <<9>>),
                  Patch(SlotOffsetOf(0) + 46, <<183>>),
                  Patch(SlotOffsetOf(0) + 90, LE16(104))>>))

InputFiles == {Std, Stale, HighLevel, Trunc, Big, HighBit, Bnd3, Short, EmptyBuf,
               Neg, Dup, Shuffled, NoIndex, BadSentinel, NoNul, Decoy}

\* The saves a copy takes from a source file the user has loaded.
SourceNames == {"Std0", "Big0", "TruncLast"}
StdSaves == parseSaveFile(Std).saves
BigSaves == parseSaveFile(Big).saves
TruncSaves == parseSaveFile(Trunc).saves
SourceSave(name) ==
  CASE name = "Std0" -> StdSaves[1]
    [] name = "Big0" -> BigSaves[1]
    [] name = "TruncLast" -> TruncSaves[NumSlots]

\* The attributes of an edit: a level of 104, a vigor above 99, a sum below
\* 79, and a mind and an endurance above 99.
AttrsLevel104 == <<99, 10, 12, 14, 13, 9, 9, 17>>
AttrsOver99 == <<120, 10, 12, 14, 13, 9, 9, 17>>
AttrsTooLow == <<1, 1, 1, 1, 1, 1, 1, 1>>
\* vigor at the top of the tables, mind and endurance above it
AttrsAbove99 == <<99, 100, 255, 14, 13, 9, 9, 17>>
AttrSets == {AttrsLevel104, AttrsOver99, AttrsTooLow, AttrsAbove99}
OptionSets == [godMode : BOOLEAN, customAttributes : BOOLEAN]
\* slot indices of a request: the slots of the file, and one past the tables
SlotIndices == 0..(NumSlots - 1) \cup {10}

(***************************************************************************)
(* The state machine: a buffer held by the caller, and the calls on the    *)
(* save manager, one at a time.                                            *)
(***************************************************************************)
VARIABLES file, op, args, result

\* The application around the save manager: the save files on disk, by
\* path, the fields of the renderer's EldenRingSaveManagerUI, and the number
\* of writes the main process has made to the disk.
VARIABLES disk, ui, writes

appVars == <<disk, ui, writes>>
vars == <<file, op, args, result, disk, ui, writes>>

\* constructor of EldenRingSaveManagerUI: nothing loaded, nothing selected
NewUI ==
  [sourceSaveFile |-> Null,
   targetSaveFile |-> Null,
   selectedSourceSave |-> Null,
   selectedTargetSlot |-> Null,
   currentCharacterStats |-> Null,
   originalStats |-> Null]

\* The calls on the save manager are made on a buffer in memory: no file on
\* disk is involved.
NoDisk == <<>>

Idle == "idle"
NoArgs == <<>>

Init ==
  /\ file \in InputFiles
  /\ op = Idle
  /\ args = NoArgs
  /\ result = Null
  /\ disk = NoDisk
  /\ ui = NewUI
  /\ writes = 0

ParseSaveFile ==
  /\ op = Idle
  /\ op' = "parseSaveFile"
  /\ args' = NoArgs
  /\ result' = parseSaveFile(file)
  /\ UNCHANGED file
  /\ UNCHANGED appVars

\* The target is the container parsed from the file; the call returns a new
\* buffer or throws.
CopySaveCall(source, targetSaveFile, targetSlotIndex, returned) ==
  /\ args' = [source |-> source, targetSlotIndex |-> targetSlotIndex, buffer |-> file]
  /\ result' = returned
  /\ file' = ArgumentAfter(file, BufferFrom(file),
                           CopyLeft(SourceSave(source), targetSaveFile, targetSlotIndex,
                                    FindSave(targetSaveFile.saves, targetSlotIndex),
                                    returned))

CopySaveOn(targetSaveFile) ==
  /\ ~Failed(targetSaveFile)
  /\ \E source \in SourceNames, targetSlotIndex \in 0..NumSlots :
       CopySaveCall(source, targetSaveFile, targetSlotIndex,
                    copySave(SourceSave(source), targetSaveFile, targetSlotIndex))

CopySave ==
  /\ op = Idle
  /\ CopySaveOn(parseSaveFile(file))
  /\ op' = "copySave"
  /\ UNCHANGED appVars

\* extractSave on a save of the parsed file: the blob it writes.
ExtractSave ==
  /\ op = Idle
  /\ LET saveFile == parseSaveFile(file)
     IN  /\ ~Failed(saveFile)
         /\ \E i \in 1..Len(saveFile.saves) :
              /\ args' = [save |-> i]
              /\ result' = extractSave(saveFile.saves[i])
  /\ op' = "extractSave"
  /\ UNCHANGED file
  /\ UNCHANGED appVars

\* loadExtractedSave on the blob just written.
LoadExtractedSave ==
  /\ op = "extractSave"
  /\ op' = "loadExtractedSave"
  /\ args' = args
  /\ result' = loadExtractedSave(result.written)
  /\ UNCHANGED file
  /\ UNCHANGED appVars

GetCharacterStats ==
  /\ op = Idle
  /\ \E slotIndex \in SlotIndices :
       /\ args' = [slotIndex |-> slotIndex]
       /\ result' = getCharacterStats(file, slotIndex)
  /\ op' = "getCharacterStats"
  /\ UNCHANGED file
  /\ UNCHANGED appVars

SetCharacterStatsCall(slotIndex, newStats, options, returned) ==
  /\ args' = [slotIndex |-> slotIndex, newStats |-> newStats, options |-> options,
              buffer |-> file]
  /\ result' = returned
  /\ file' = ArgumentAfter(file, BufferFrom(file),
                           StatsLeft(file, slotIndex, newStats, options,
                                     getCharacterStats(file, slotIndex), returned))

\* The call returns a new buffer or throws; the caller's buffer is what
\* the call leaves of it.
SetCharacterStats ==
  /\ op = Idle
  /\ \E slotIndex \in SlotIndices, newStats \in AttrSets, options \in OptionSets :
       SetCharacterStatsCall(slotIndex, newStats, options,
                             setCharacterStats(file, slotIndex, newStats, options))
  /\ op' = "setCharacterStats"
  /\ UNCHANGED appVars

\* recalculateChecksums rewrites the buffer it is given and returns nothing.
RecalculateChecksums ==
  /\ op = Idle
  /\ op' = "recalculateChecksums"
  /\ args' = NoArgs
  /\ result' = Null
  /\ file' = recalculateChecksums(file)
  /\ UNCHANGED appVars

\* The call has returned; the caller goes on with the buffer it holds.
Return ==
  /\ op # Idle
  /\ op' = Idle
  /\ args' = NoArgs
  /\ result' = Null
  /\ UNCHANGED file
  /\ UNCHANGED appVars

Next ==
  \/ ParseSaveFile
  \/ CopySave
  \/ ExtractSave
  \/ LoadExtractedSave
  \/ GetCharacterStats
  \/ SetCharacterStats
  \/ RecalculateChecksums
  \/ Return

Spec == Init /\ [][Next]_vars
(***************************************************************************)
(* Properties.                                                             *)
(***************************************************************************)
\* The container parsed from the buffer, and the summary record and the
\* entry payload of a slot as they lie in a buffer.
Parsed == parseSaveFile(file)
SummaryRecordAt(b, index) ==
  Slice(b, HEADER_DATA_OFFSET + index * HEADER_DATA_LENGTH,
        HEADER_DATA_OFFSET + index * HEADER_DATA_LENGTH + HEADER_DATA_LENGTH)
EntryPayloadAt(b, header) ==
  Slice(b, header.dataOffset, header.dataOffset + header.compressedSize)

\* The stats locator as the specification states it: the two predicates at
\* offset i of a payload, and the offsets of the scan range that satisfy
\* both.  A window of zero bytes sums to 0, which is not a level plus 79.
LocatorMatch(payload, i, headerLevel) ==
  /\ At(payload, i) + At(payload, i + 4) + At(payload, i + 8) + At(payload, i + 12)
       + At(payload, i + 16) + At(payload, i + 20) + At(payload, i + 24)
       + At(payload, i + 28) = headerLevel + 79
  /\ At(payload, i + 44) + 256 * At(payload, i + 45) = headerLevel
LocatorMatches(payload, headerLevel) ==
  {i \in {o - 4 * k : o \in DOMAIN payload.nz, k \in 0..7} :
     /\ i >= 0
     /\ i < Min(120000, payload.len - 50)
     /\ LocatorMatch(payload, i, headerLevel)}
PayloadOf(b, slotIndex) ==
  IF slotIndex \in 0..9
    THEN Slice(b, 784 + slotIndex * 2621456, 784 + slotIndex * 2621456 + 2621440)
    ELSE EmptyBuf
HeaderLevelReadable(b, slotIndex) == CanAccess(b, 26221872 + slotIndex * 588, 2)
HeaderLevelOf(b, slotIndex) == ReadUInt16LE(b, 26221872 + slotIndex * 588)
MatchesOf(b, slotIndex) == LocatorMatches(PayloadOf(b, slotIndex), HeaderLevelOf(b, slotIndex))
\* the origin of the stats block of a slot, as an offset of the buffer
OriginOf(b, slotIndex) == 784 + slotIndex * 2621456 + FirstOf(MatchesOf(b, slotIndex))
ResourceDistances == {44, 40, 36, 32, 28, 24, 16, 12, 8}

\* C1: parseSaveFile on a buffer whose first 4 bytes are not "BND4" raises
\* the bad-magic error and yields no container.
C1_BadMagicRaised ==
  (op = "parseSaveFile" /\ Slice(file, 0, 4) # SeqBuf(BND4))
    => (IsThrow(result) /\ result.throw = BadMagic)

\* C2: the buffer copySave returns has the active flag of the target slot
\* at 1 and, at the slot's summary record, the 588 bytes of the source's
\* headerData.
C2_CopyWritesSummaryAndFlag ==
  (op = "copySave" /\ ~IsThrow(result))
    => /\ At(result, ACTIVE_SAVE_SLOT_OFFSET + args.targetSlotIndex) = 1
       /\ SummaryRecordAt(result, args.targetSlotIndex) = SourceSave(args.source).headerData

\* C3: copySave leaves every other slot of the target as it was: its entry
\* payload, its summary record and its active flag.
C3_OtherSlotsUntouched ==
  (op = "copySave" /\ ~IsThrow(result))
    => \A j \in 1..Len(Parsed.saves) :
         Parsed.saves[j].index # args.targetSlotIndex
           => /\ EntryPayloadAt(result, Parsed.saves[j].gameFile.header)
                   = EntryPayloadAt(file, Parsed.saves[j].gameFile.header)
              /\ SummaryRecordAt(result, Parsed.saves[j].index)
                   = SummaryRecordAt(file, Parsed.saves[j].index)
              /\ At(result, ACTIVE_SAVE_SLOT_OFFSET + Parsed.saves[j].index)
                   = At(file, ACTIVE_SAVE_SLOT_OFFSET + Parsed.saves[j].index)

\* C4: in the buffer setCharacterStats returns for attributes that sum to
\* S, the level is S - 79 both in the 16-bit field at the stats origin + 44
\* and in the summary record as extractSaveHeaderInfo decodes it.
C4_LevelAtBothPositions ==
  (op = "setCharacterStats" /\ ~IsThrow(result))
    => /\ ReadUInt16LE(result, OriginOf(file, args.slotIndex) + 44)
            = SumSeq(args.newStats) - 79
       /\ extractSaveHeaderInfo(SummaryRecordAt(result, args.slotIndex)).characterLevel
            = SumSeq(args.newStats) - 79

\* C5: with godMode set, the buffer setCharacterStats returns holds 60000
\* in the nine 16-bit resource positions before the stats origin, whatever
\* the attributes and whatever customAttributes.
C5_GodModeResources ==
  (op = "setCharacterStats" /\ args.options.godMode /\ ~IsThrow(result))
    => \A d \in ResourceDistances :
         ReadUInt16LE(result, OriginOf(file, args.slotIndex) - d) = 60000

C5_Witness ==
  /\ op = "setCharacterStats"
  /\ args.options.godMode
  /\ args.options.customAttributes
  /\ args.newStats = AttrsOver99
  /\ ~IsThrow(result)
  /\ \A d \in ResourceDistances :
       ReadUInt16LE(result, OriginOf(file, args.slotIndex) - d) = 60000
  /\ \E d \in ResourceDistances :
       ReadUInt16LE(file, OriginOf(file, args.slotIndex) - d) # 60000

\* C6: recalculateChecksums applied to a buffer it has just rewritten
\* leaves every byte as it is.
C6_RecalculateIdempotent ==
  op = "recalculateChecksums" => recalculateChecksums(file) = file

C6_Witness ==
  /\ op = "recalculateChecksums"
  /\ file = recalculateChecksums(Stale)
  /\ file # Stale
  /\ recalculateChecksums(file) = file

\* C7: loadExtractedSave on the blob extractSave wrote for a slot of the
\* parsed file returns the slot's headerData, saveDataChecksum and
\* saveData, and the same decoded name and level.
C7_ExtractLoadRoundTrip ==
  op = "loadExtractedSave"
    => /\ ~IsThrow(result)
       /\ result.headerData = Parsed.saves[args.save].headerData
       /\ result.saveDataChecksum = Parsed.saves[args.save].saveDataChecksum
       /\ result.saveData = Parsed.saves[args.save].saveData
       /\ result.saveHeaderInfo.characterName
            = Parsed.saves[args.save].saveHeaderInfo.characterName
       /\ result.saveHeaderInfo.characterLevel
            = Parsed.saves[args.save].saveHeaderInfo.characterLevel

\* The slots of a container written back into a buffer, each at the offsets
\* it was read from.
WriteBack(b, save) ==
  IF IsThrow(b) THEN b
  ELSE CopyInto(save.headerData,
         CopyInto(save.saveData,
           CopyInto(save.saveDataChecksum, b, save.gameFile.header.dataOffset),
           save.gameFile.header.dataOffset + CHECKSUM_LENGTH),
         HEADER_DATA_OFFSET + save.index * HEADER_DATA_LENGTH)

RECURSIVE Reserialized(_, _, _)
Reserialized(b, saves, j) ==
  IF IsThrow(b) \/ j > Len(saves) THEN b
  ELSE Reserialized(WriteBack(b, saves[j]), saves, j + 1)

\* a valid container: every slot lies at offsets of the buffer
ValidContainer(container) ==
  \A j \in 1..Len(container.saves) :
    /\ container.saves[j].index >= 0
    /\ container.saves[j].gameFile.header.dataOffset >= 0

\* C8: the slots of a parsed valid container, written back into a copy of
\* the buffer at the offsets they were read from, give the buffer again.
C8_ParseRoundTrip ==
  (op = "parseSaveFile" /\ ~Failed(result) /\ ValidContainer(result))
    => Reserialized(file, result.saves, 1) = file

C8_Witness ==
  /\ op = "parseSaveFile"
  /\ ~Failed(result)
  /\ ValidContainer(result)
  /\ Len(result.saves) = NumSlots
  /\ result.saves[1].saveHeaderInfo.characterLevel = 25
  /\ result.saves[1].saveData.len = slotWindowLength
  /\ Reserialized(file, result.saves, 1) = file

\* C9: when some offset of the scan range satisfies both predicates of the
\* locator, getCharacterStats locates the block at the lowest such offset,
\* also when that offset is near the start of the payload.
C9_FirstMatchLocated ==
  (/\ op = "getCharacterStats"
   /\ HeaderLevelReadable(file, args.slotIndex)
   /\ MatchesOf(file, args.slotIndex) # {})
    => /\ ~IsNull(result)
       /\ result.statsOffset = OriginOf(file, args.slotIndex)

\* C10: when no offset of the scan range satisfies both predicates,
\* getCharacterStats returns null and setCharacterStats fails with an
\* error instead of returning a buffer.
C10_NotFoundReported ==
  (/\ op \in {"getCharacterStats", "setCharacterStats"}
   /\ HeaderLevelReadable(file, args.slotIndex)
   /\ MatchesOf(file, args.slotIndex) = {})
    => IF op = "getCharacterStats" THEN IsNull(result)
       ELSE /\ IsThrow(result)
            /\ result.throw = "Failed to set character stats: Could not find character stats"

C10_Witness ==
  /\ op = "setCharacterStats"
  /\ file = Std
  /\ args.slotIndex = 2
  /\ LocatorMatch(PayloadOf(file, 2), 120000, HeaderLevelOf(file, 2))
  /\ MatchesOf(file, args.slotIndex) = {}
  /\ IsThrow(result)

\* C11: copySave and setCharacterStats leave every byte of the buffer they
\* are given as it was, whether they return a new buffer or throw; a call
\* that throws returns no buffer.
C11_InputNeverMutated ==
  op \in {"copySave", "setCharacterStats"}
    => /\ file = args.buffer
       /\ IsThrow(result) \/ result.len = args.buffer.len

\* a call that throws on the level after it has written the attributes
C11_Witness ==
  /\ op = "setCharacterStats"
  /\ IsThrow(result)
  /\ args.newStats = AttrsTooLow
  /\ ~IsNull(getCharacterStats(args.buffer, args.slotIndex))
  /\ WrittenBy(args.buffer,
               StatsWrites(args.slotIndex, args.newStats, args.options,
                           getCharacterStats(args.buffer, args.slotIndex))) # args.buffer
  /\ file = args.buffer

\* C12: every slot of a parsed container has an index in 0..9.
C12_SlotIndexInRange ==
  (op = "parseSaveFile" /\ ~Failed(result))
    => \A j \in 1..Len(result.saves) : result.saves[j].index \in 0..9

\* C13: a parsed container has at most 10 slots, and no two of them have
\* the same index.
C13_SlotIndexUnique ==
  (op = "parseSaveFile" /\ ~Failed(result))
    => /\ Len(result.saves) <= 10
       /\ \A i, j \in 1..Len(result.saves) :
            i # j => result.saves[i].index # result.saves[j].index

\* C14: the slots of a parsed container are sorted by index ascending,
\* whatever the order of their entries in the entry table.
C14_SlotsSorted ==
  (op = "parseSaveFile" /\ ~Failed(result))
    => \A i, j \in 1..Len(result.saves) :
         i < j => result.saves[i].index <= result.saves[j].index

\* the entry table lists slot NumSlots - 1 first, the slot list lists it last
C14_Witness ==
  /\ op = "parseSaveFile"
  /\ ~Failed(result)
  /\ result.gameFiles[1].header.name = UserData(NumSlots - 1)
  /\ Len(result.saves) = NumSlots
  /\ \A j \in 1..NumSlots : result.saves[j].index = j - 1
  /\ result.saves[NumSlots].gameFile = result.gameFiles[1]

\* The entry table as the specification lays it out: the resolved format
\* byte, the size of an entry header under it, and the place of the k-th
\* header (k = 0 for the first) and of its sentinel field.
BitReversal(r) ==
  128 * (r % 2) + 64 * ((r \div 2) % 2) + 32 * ((r \div 4) % 2) + 16 * ((r \div 8) % 2)
    + 8 * ((r \div 16) % 2) + 4 * ((r \div 32) % 2) + 2 * ((r \div 64) % 2)
    + ((r \div 128) % 2)
BitOrderBigEndian(b) == At(b, 10) = 0
ExpectedFormat(r, bigEndianBits) ==
  IF bigEndianBits \/ (r % 2 = 1 /\ r < 128) THEN r ELSE BitReversal(r)
FormatOf(b) == ExpectedFormat(At(b, 49), BitOrderBigEndian(b))
HasBit(x, k) == (x \div (2 ^ k)) % 2 = 1
ExpectedHeaderSize(format) ==
  16 + (IF HasBit(format, 5) THEN 8 ELSE 0) + (IF HasBit(format, 4) THEN 8 ELSE 4)
     + (IF HasBit(format, 1) THEN 4 ELSE 0)
     + (IF HasBit(format, 2) \/ HasBit(format, 3) THEN 4 ELSE 0)
     + (IF format = 4 THEN 8 ELSE 0)
HeaderAt(b, k) == 64 + k * ExpectedHeaderSize(FormatOf(b))
SentinelAt(b, k) == ReadInt32LE(b, HeaderAt(b, k) + 4)
FileCountOf(b) == ReadInt32LE(b, 12)
HasMagic(b) == b.len >= 64 /\ Slice(b, 0, 4) = SeqBuf(BND4)
\* the parser reads the headers before the k-th without failing
HeadersReadBefore(b, k) ==
  ~Failed(readGameFileHeaders(b, 64, k, FormatOf(b), At(b, 48) # 0, At(b, 9) # 0))
UnknownTableFormat == "Unknown file table format"

\* C15 (as stated): a header whose sentinel field reads -1 makes the parse
\* fail with the unknown-table-format error.
C15_SentinelMinusOneFails ==
  (/\ op = "parseSaveFile"
   /\ HasMagic(file)
   /\ FileCountOf(file) >= 1
   /\ CanAccess(file, HeaderAt(file, 0), 8)
   /\ SentinelAt(file, 0) = -1
   /\ ~IsHang(result))
    => (IsThrow(result) /\ result.throw = UnknownTableFormat)

\* C15 (amended): the parse fails with the unknown-table-format error, and
\* yields no container, when the first header it cannot accept has a
\* sentinel field that reads a value other than -1; it fails with that
\* error for no buffer whose sentinel fields all read -1.
C15_SentinelNotMinusOneFails ==
  (op = "parseSaveFile" /\ HasMagic(file))
    => /\ \A k \in 0..(FileCountOf(file) - 1) :
            (/\ HeadersReadBefore(file, k)
             /\ CanAccess(file, HeaderAt(file, k), 8)
             /\ SentinelAt(file, k) # -1)
              => (IsThrow(result) /\ result.throw = UnknownTableFormat)
       /\ (IsThrow(result) /\ result.throw = UnknownTableFormat)
            => \E k \in 0..(FileCountOf(file) - 1) : SentinelAt(file, k) # -1

\* the first header is accepted with its sentinel of -1, the second fails
C15_Witness ==
  /\ op = "parseSaveFile"
  /\ HasMagic(file)
  /\ FileCountOf(file) = 2
  /\ SentinelAt(file, 0) = -1
  /\ SentinelAt(file, 1) = 0
  /\ HeadersReadBefore(file, 1)
  /\ IsThrow(result)
  /\ result.throw = UnknownTableFormat

\* C16: a read of the BufferReader past the end of the buffer fails; none
\* returns a shortened result.  In a parse: the 4 bytes of the magic, the
\* bytes of every entry and the 588 bytes of every summary record are read
\* in full or the parse fails with an out-of-bounds error.
C16_ReadsFailPastEnd ==
  op = "parseSaveFile"
    => /\ file.len < 4 => (IsThrow(result) /\ result.throw = RangeError)
       /\ ~Failed(result)
            => /\ \A j \in 1..Len(result.saves) :
                    result.saves[j].headerData.len = HEADER_DATA_LENGTH
               /\ \A j \in 1..Len(result.gameFiles) :
                    result.gameFiles[j].data.len
                      = result.gameFiles[j].header.compressedSize

\* C17: copySave fails with the target-slot-not-found error exactly when
\* the container parsed from the target has no slot of index
\* targetSlotIndex.
C17_TargetSlotNotFound ==
  op = "copySave"
    => ((IsThrow(result) /\ result.throw = TargetSlotNotFound)
          <=> (\A j \in 1..Len(parseSaveFile(args.buffer).saves) :
                 parseSaveFile(args.buffer).saves[j].index # args.targetSlotIndex))

\* a target whose slot list is as long as the index asked for, with no
\* slot of that index
C17_Witness ==
  /\ op = "copySave"
  /\ Len(parseSaveFile(args.buffer).saves) > args.targetSlotIndex
  /\ \A j \in 1..Len(parseSaveFile(args.buffer).saves) :
       parseSaveFile(args.buffer).saves[j].index # args.targetSlotIndex
  /\ IsThrow(result)
  /\ result.throw = TargetSlotNotFound

\* C18: parseSaveFile returns a container or raises an error for every
\* buffer.
C18_ParseTerminates ==
  op = "parseSaveFile" => ~IsHang(result)

(***************************************************************************)
(* Archives of every raw format byte, laid out as the specification lays   *)
(* out the entry table: two entries, their names "A" and "B" in the name   *)
(* table after the headers, their data at the end.                         *)
(***************************************************************************)
FormatEntryCount == 2
FieldDataOffset(format) == 16 + (IF HasBit(format, 5) THEN 8 ELSE 0)
FieldId(format) == FieldDataOffset(format) + (IF HasBit(format, 4) THEN 8 ELSE 4)
FieldNameOffset(format) == FieldId(format) + (IF HasBit(format, 1) THEN 4 ELSE 0)
FieldExtra(format) ==
  FieldNameOffset(format) + (IF HasBit(format, 2) \/ HasBit(format, 3) THEN 4 ELSE 0)
HasNames(format) == HasBit(format, 2) \/ HasBit(format, 3)

\* what entry k (0 for the first) holds
EntryFlags(k) == 80 + k
EntrySize(k) == 16 + k
EntryUncompressed(k) == 32 + k
EntryOffset(k) == 200 + 16 * k
EntryId(k) == 7 + k
EntryLastId(k) == 11 + k
EntryName(k) == <<65 + k>>
NameAt(format, k) == 64 + FormatEntryCount * ExpectedHeaderSize(format) + 8 * k

FormatEntry(format, k, base) ==
  <<Patch(base, <<EntryFlags(k), 0, 0, 0, 255, 255, 255, 255>>),
    Patch(base + 8, LE64(EntrySize(k))),
    Patch(base + 16, IF HasBit(format, 5) THEN LE64(EntryUncompressed(k)) ELSE <<>>),
    Patch(base + FieldDataOffset(format),
          IF HasBit(format, 4) THEN LE64(EntryOffset(k)) ELSE LE32(EntryOffset(k))),
    Patch(base + FieldId(format), IF HasBit(format, 1) THEN LE32(EntryId(k)) ELSE <<>>),
    Patch(base + FieldNameOffset(format),
          IF HasNames(format) THEN LE32(NameAt(format, k)) ELSE <<>>),
    Patch(base + FieldExtra(format),
          IF format = 4 THEN LE32(EntryLastId(k)) \o LE32(99) ELSE <<>>),
    Patch(NameAt(format, k), Utf16le(EntryName(k)))>>

FormatFileOf(bitFlag, unicode, rawFormat, format) ==
  PutAll(Blank(EntryOffset(FormatEntryCount)),
         HeaderPatches(BND4, bitFlag, FormatEntryCount, unicode, rawFormat)
           \o Flatten([i \in 1..FormatEntryCount |->
                         FormatEntry(format, i - 1,
                                     64 + (i - 1) * ExpectedHeaderSize(format))]))

FormatFile(bitFlag, unicode, rawFormat) ==
  FormatFileOf(bitFlag, unicode, rawFormat, ExpectedFormat(rawFormat, bitFlag = 0))

FormatFiles ==
  {FormatFile(bitFlag, unicode, rawFormat) :
     bitFlag \in 0..1, unicode \in 0..1, rawFormat \in 0..255}

\* The parser on the archives of every format byte.
InitFormat ==
  /\ file \in FormatFiles
  /\ op = Idle
  /\ args = NoArgs
  /\ result = Null
  /\ disk = NoDisk
  /\ ui = NewUI
  /\ writes = 0

NextFormat ==
  \/ ParseSaveFile
  \/ Return

SpecFormat == InitFormat /\ [][NextFormat]_vars

\* C19: the resolved format is the raw byte when the bits are big-endian
\* or when the raw byte has bit 0x01 set and bit 0x80 clear, and the 8-bit
\* reversal of the raw byte otherwise; reversing a byte twice gives the
\* byte.
C19_FormatResolution ==
  op = "parseSaveFile"
    => /\ ~Failed(result)
       /\ result.rawFormat = At(file, 49)
       /\ result.bitBigEndian = BitOrderBigEndian(file)
       /\ result.format = ExpectedFormat(At(file, 49), BitOrderBigEndian(file))
       /\ reverseBytes(At(file, 49)) = BitReversal(At(file, 49))
       /\ reverseBytes(reverseBytes(At(file, 49))) = At(file, 49)

\* a raw byte with bit 0x01 and bit 0x80 set, little-endian bits: reversed
C19_Witness ==
  /\ op = "parseSaveFile"
  /\ ~Failed(result)
  /\ ~result.bitBigEndian
  /\ result.rawFormat = 131
  /\ result.format = 193

\* the header of entry k as the parser returns it
ExpectedHeader(format, unicode, k) ==
  [fileFlags |-> EntryFlags(k),
   compressedSize |-> EntrySize(k),
   uncompressedSize |-> IF HasBit(format, 5) THEN EntryUncompressed(k) ELSE -1,
   dataOffset |-> EntryOffset(k),
   id |-> IF format = 4 THEN EntryLastId(k)
          ELSE IF HasBit(format, 1) THEN EntryId(k) ELSE -1,
   hasName |-> HasNames(format),
   name |-> IF ~HasNames(format) THEN <<>>
            ELSE IF unicode THEN EntryName(k) ELSE <<74, 73, 83>>]

\* C20: every entry header is read in the shape the resolved format fixes,
\* header k + 1 from the byte after header k, also after the name of
\* header k was read at its offset in the name table.
C20_HeaderShape ==
  op = "parseSaveFile"
    => /\ ~Failed(result)
       /\ Len(result.gameFileHeaders) = FormatEntryCount
       /\ \A k \in 0..(FormatEntryCount - 1) :
            /\ SentinelAt(file, k) = -1
            /\ result.gameFileHeaders[k + 1]
                 = ExpectedHeader(FormatOf(file), At(file, 48) # 0, k)

\* format 0x04 resolved from the raw byte 0x20, with unicode names
C20_Witness ==
  /\ op = "parseSaveFile"
  /\ ~Failed(result)
  /\ result.rawFormat = 32
  /\ result.format = 4
  /\ result.unicode
  /\ result.gameFileHeaders[2].id = EntryLastId(1)
  /\ result.gameFileHeaders[2].name = EntryName(1)
  /\ result.gameFileHeaders[2].dataOffset = EntryOffset(1)

(***************************************************************************)
(* Derived resources, frame and digests of a stats edit.                   *)
(***************************************************************************)
\* The value of a resource table for an attribute: the entry of the
\* attribute, and the entry of 99 for an attribute above 99.
TableValue(table, attribute) == table[IF attribute > 99 THEN 99 ELSE attribute]

\* C21: with customAttributes set and godMode unset, the buffer
\* setCharacterStats returns holds, in the three HP positions, the HP-table
\* value of the new vigor, in the three FP positions the FP-table value of
\* the new mind and in the three stamina positions the stamina-table value
\* of the new endurance; an attribute above 99 takes the value at 99.
C21_CustomAttributeResources ==
  (/\ op = "setCharacterStats"
   /\ args.options.customAttributes
   /\ ~args.options.godMode
   /\ ~IsThrow(result))
    => /\ \A d \in {44, 40, 36} :
            ReadUInt16LE(result, OriginOf(file, args.slotIndex) - d)
              = TableValue(hpTable, args.newStats[1])
       /\ \A d \in {32, 28, 24} :
            ReadUInt16LE(result, OriginOf(file, args.slotIndex) - d)
              = TableValue(fpTable, args.newStats[2])
       /\ \A d \in {16, 12, 8} :
            ReadUInt16LE(result, OriginOf(file, args.slotIndex) - d)
              = TableValue(staminaTable, args.newStats[3])

C21_Witness ==
  /\ op = "setCharacterStats"
  /\ args.options.customAttributes
  /\ ~args.options.godMode
  /\ args.newStats = AttrsAbove99
  /\ ~IsThrow(result)
  /\ ReadUInt16LE(result, OriginOf(file, args.slotIndex) - 44) = hpTable[99]
  /\ ReadUInt16LE(result, OriginOf(file, args.slotIndex) - 24) = fpTable[99]
  /\ ReadUInt16LE(result, OriginOf(file, args.slotIndex) - 8) = staminaTable[99]
  /\ ReadUInt16LE(file, OriginOf(file, args.slotIndex) - 44) # hpTable[99]
  /\ ReadUInt16LE(file, OriginOf(file, args.slotIndex) - 24) # fpTable[99]
  /\ ReadUInt16LE(file, OriginOf(file, args.slotIndex) - 8) # staminaTable[99]

\* The offsets at which two buffers of the same length differ.
ChangedOffsets(a, b) == {o \in DOMAIN a.nz \cup DOMAIN b.nz : At(a, o) # At(b, o)}

\* The offsets of the stored digests: 16 bytes before each of the 10 slot
\* windows and 16 bytes before the save-headers section.
SlotDigestOffsets == UNION {{768 + i * 2621456 + k : k \in 0..15} : i \in 0..9}
SectionDigestOffsets == {26215344 - 16 + k : k \in 0..15}

\* The offsets a plain edit of the stats of a slot may change: the eight
\* attribute bytes, the level field, the level of the summary record and
\* the digests.
PlainEditOffsets(origin, slotIndex) ==
  {origin + 4 * k : k \in 0..7}
    \cup {origin + 44, origin + 45}
    \cup {26221872 + slotIndex * 588, 26221872 + slotIndex * 588 + 1}
    \cup SlotDigestOffsets
    \cup SectionDigestOffsets

\* C22: with neither godMode nor customAttributes, the buffer
\* setCharacterStats returns differs from its input only in the eight
\* attribute bytes at origin + 0, 4, ..., 28, which hold the new attributes
\* in the order of statNames, in the level field at origin + 44, in the
\* level of the summary record and in the stored digests.
C22_PlainEditFrame ==
  (/\ op = "setCharacterStats"
   /\ ~args.options.godMode
   /\ ~args.options.customAttributes
   /\ ~IsThrow(result))
    => /\ result.len = file.len
       /\ ChangedOffsets(file, result)
            \subseteq PlainEditOffsets(OriginOf(file, args.slotIndex), args.slotIndex)
       /\ \A k \in 1..8 :
            At(result, OriginOf(file, args.slotIndex) + 4 * (k - 1)) = args.newStats[k]

C22_Witness ==
  /\ op = "setCharacterStats"
  /\ args.options = NoOptions
  /\ args.newStats = AttrsAbove99
  /\ ~IsThrow(result)
  /\ At(file, OriginOf(file, args.slotIndex) + 1) # 0
  /\ At(result, OriginOf(file, args.slotIndex) + 1) = At(file, OriginOf(file, args.slotIndex) + 1)
  /\ \A d \in ResourceDistances :
       /\ ReadUInt16LE(file, OriginOf(file, args.slotIndex) - d) # 0
       /\ ReadUInt16LE(result, OriginOf(file, args.slotIndex) - d)
            = ReadUInt16LE(file, OriginOf(file, args.slotIndex) - d)
  /\ \A k \in 1..3 :
       At(result, OriginOf(file, args.slotIndex) + 4 * (k - 1)) = AttrsAbove99[k]
  /\ ChangedOffsets(file, result) \cap SlotDigestOffsets # {}
  /\ ChangedOffsets(file, result) \cap SectionDigestOffsets # {}

\* The stored digest of slot window i of a buffer, and the data it covers.
SlotDigestAt(b, i) == Slice(b, 768 + i * 2621456, 768 + i * 2621456 + 16)
SlotWindowAt(b, i) == Slice(b, 784 + i * 2621456, 784 + i * 2621456 + 2621440)

\* C23: in every buffer setCharacterStats returns, each of the 10 slot
\* windows is checksum-consistent: the 16 bytes at 0x300 + i * 2621456 are
\* the MD5 of the 2621440 bytes at 0x310 + i * 2621456 of that buffer.
C23_SlotDigestsConsistent ==
  (op = "setCharacterStats" /\ ~IsThrow(result))
    => \A i \in 0..9 : SlotDigestAt(result, i) = Md5(SlotWindowAt(result, i))

C23_Witness ==
  /\ op = "setCharacterStats"
  /\ ~IsThrow(result)
  /\ args.slotIndex = 0
  /\ SlotWindowAt(result, 0) # SlotWindowAt(file, 0)
  /\ SlotDigestAt(result, 0) # SlotDigestAt(file, 0)
  /\ SlotDigestAt(file, 0) = Md5(SlotWindowAt(file, 0))
  /\ \A i \in 0..9 : SlotDigestAt(result, i) = Md5(SlotWindowAt(result, i))

\* The save-headers section of a buffer and the digest stored before it.
SectionAt(b) == Slice(b, 26215344, 26215344 + 393216)
SectionDigestAt(b) == Slice(b, 26215344 - 16, 26215344)

\* C24: in every buffer setCharacterStats returns, the 16 bytes before the
\* save-headers section are the MD5 of the 393216 bytes of the section,
\* which holds the rewritten level of the summary record; the range that
\* recalculateChecksums hashes as general data is this section.
C24_SectionDigestConsistent ==
  (op = "setCharacterStats" /\ ~IsThrow(result))
    => /\ SectionDigestAt(result) = Md5(SectionAt(result))
       /\ LevelOffsetOf(args.slotIndex) >= SAVE_HEADERS_SECTION_OFFSET
       /\ LevelOffsetOf(args.slotIndex) + 2
            <= SAVE_HEADERS_SECTION_OFFSET + SAVE_HEADERS_SECTION_LENGTH
       /\ generalDataStart = SAVE_HEADERS_SECTION_OFFSET
       /\ generalDataEnd + 1 = SAVE_HEADERS_SECTION_OFFSET + SAVE_HEADERS_SECTION_LENGTH
       /\ generalChecksumStart = SAVE_HEADERS_SECTION_OFFSET - CHECKSUM_LENGTH

C24_Witness ==
  /\ op = "setCharacterStats"
  /\ ~IsThrow(result)
  /\ file.len >= 26215344 + 393216
  /\ SectionAt(result) # SectionAt(file)
  /\ ReadUInt16LE(SectionAt(result), LevelOffsetOf(args.slotIndex) - 26215344)
       = SumSeq(args.newStats) - 79
  /\ SectionDigestAt(file) = Md5(SectionAt(file))
  /\ SectionDigestAt(result) # SectionDigestAt(file)
  /\ SectionDigestAt(result) = Md5(SectionAt(result))

(***************************************************************************)
(* Digests of a copy, and the round trip of a stats edit.                  *)
(***************************************************************************)
\* The entry of the target slot of a copy, as parsed from the target.
TargetHeader == FindSave(Parsed.saves, args.targetSlotIndex).gameFile.header

\* C25: in every buffer copySave returns, the 16 bytes at the target
\* entry's dataOffset are the MD5 of the save data that follows them in the
\* target entry's payload, and the 16 bytes before the save-headers section
\* are the MD5 of the section as the copy left it.
C25_CopyDigestsConsistent ==
  (op = "copySave" /\ ~IsThrow(result))
    => /\ Slice(result, TargetHeader.dataOffset, TargetHeader.dataOffset + 16)
            = Md5(Slice(result, TargetHeader.dataOffset + 16,
                        TargetHeader.dataOffset + TargetHeader.compressedSize))
       /\ SectionDigestAt(result) = Md5(SectionAt(result))

\* What reading the stats back must give after an edit: the block where it
\* was before the edit, with the attributes and the level of the edit.
ReadsBack(after, before, newStats) ==
  /\ ~IsNull(after)
  /\ after.statsOffset = before.statsOffset
  /\ after.stats = newStats
  /\ after.level = SumSeq(newStats) - 79

\* C26: when setCharacterStats succeeds on a buffer, a slot and a set of
\* attributes, getCharacterStats on the returned buffer finds the block at
\* the same origin and returns those attributes and their sum minus 79 as
\* the level.
C26_StatsRoundTrip ==
  (op = "setCharacterStats" /\ ~IsThrow(result))
    => ReadsBack(getCharacterStats(result, args.slotIndex),
                 getCharacterStats(file, args.slotIndex), args.newStats)

(***************************************************************************)
(* The application: the IPC handlers of the main process (main.js), the    *)
(* bridge of the preload script (preload.js) and the renderer's            *)
(* EldenRingSaveManagerUI (renderer.js).                                   *)
(***************************************************************************)
\* loadSaveFile: the file read from the disk and parsed, with its path.
\* `Failed to load save file: ${error.message}`
LoadedSaveFile(parsed, filePath) ==
  IF IsThrow(parsed) THEN Throw("Failed to load save file")
  ELSE IF IsHang(parsed) THEN parsed
  ELSE [filePath |-> filePath] @@ parsed

loadSaveFile(files, filePath) == LoadedSaveFile(parseSaveFile(files[filePath]), filePath)

\* fs.writeFileSync(filePath, buffer)
WriteFileSync(files, filePath, buffer) == [files EXCEPT ![filePath] = buffer]

\* { success: false, error: error.message }
Failure(error) == [success |-> FALSE, error |-> error]

\* What a handler leaves: the files on disk, the response it returns, and
\* whether it wrote a file.
Reply(files, response) == [files |-> files, response |-> response, written |-> FALSE]
Written(reply) == [reply EXCEPT !.written = TRUE]

\* the user closes the file dialog without a choice
Canceled == "canceled"

\* ipcMain.handle('select-source-file') and ipcMain.handle('select-target-file')
SelectFileResponse(saveFile) ==
  IF IsThrow(saveFile) THEN Failure(saveFile.throw)
  ELSE [success |-> TRUE, saveFile |-> saveFile]

HandleSelectFile(files, choice) ==
  IF choice = Canceled THEN Reply(files, Failure("No file selected"))
  ELSE Reply(files, SelectFileResponse(loadSaveFile(files, choice)))

\* ipcMain.handle('copy-save'): the reload of the file just written
CopySaveReloaded(files, filePath, reloadedTargetFile) ==
  IF IsThrow(reloadedTargetFile) THEN Reply(files, Failure(reloadedTargetFile.throw))
  ELSE Reply(files, [success |-> TRUE, filePath |-> filePath,
                     updatedTargetFile |-> reloadedTargetFile])

CopySaveWritten(files, filePath) ==
  CopySaveReloaded(files, filePath, loadSaveFile(files, filePath))

CopySaveHandled(files, request, updatedBuffer) ==
  IF IsThrow(updatedBuffer) THEN Reply(files, Failure(updatedBuffer.throw))
  ELSE Written(CopySaveWritten(WriteFileSync(files, request.targetSaveFile.filePath,
                                             updatedBuffer),
                               request.targetSaveFile.filePath))

HandleCopySave(files, request) ==
  CopySaveHandled(files, request,
                  copySave(request.sourceSave, request.targetSaveFile,
                           request.targetSlotIndex))

\* ipcMain.handle('extract-save'): the blob goes to the path of the dialog
ExtractPath == "extracted.er"

ExtractSaveResponse(extractResult) ==
  [success |-> TRUE, originalSize |-> extractResult.originalSize, filePath |-> ExtractPath]

HandleExtractSave(files, request, choice) ==
  IF choice = Canceled THEN Reply(files, Failure("Extract canceled"))
  ELSE Written(Reply(WriteFileSync(files, ExtractPath, extractSave(request.save).written),
                     ExtractSaveResponse(extractSave(request.save))))

\* ipcMain.handle('get-character-stats')
HandleGetCharacterStats(files, request) ==
  Reply(files, [success |-> TRUE,
                stats |-> getCharacterStats(files[request.saveFile.filePath],
                                            request.slotIndex)])

\* ipcMain.handle('set-character-stats'): the reload of the file just written
SetStatsReloaded(files, reloadedSaveFile) ==
  IF IsThrow(reloadedSaveFile) THEN Reply(files, Failure(reloadedSaveFile.throw))
  ELSE Reply(files, [success |-> TRUE, updatedSaveFile |-> reloadedSaveFile])

SetStatsWritten(files, filePath) == SetStatsReloaded(files, loadSaveFile(files, filePath))

\* A handler that writes the file whatever the call did, with the bytes the
\* writes before the error left: the variant of SetStatsHandled that the
\* error path of C27 must tell apart.
SetStatsHandledAlways(files, request, modifiedBuffer) ==
  IF IsThrow(modifiedBuffer)
    THEN Reply(WriteFileSync(files, request.saveFile.filePath,
                             StatsLeft(files[request.saveFile.filePath], request.slotIndex,
                                       request.newStats, request.options,
                                       getCharacterStats(files[request.saveFile.filePath],
                                                         request.slotIndex),
                                       modifiedBuffer)),
               Failure(modifiedBuffer.throw))
    ELSE Written(SetStatsWritten(WriteFileSync(files, request.saveFile.filePath,
                                               modifiedBuffer),
                                 request.saveFile.filePath))

SetStatsHandled(files, request, modifiedBuffer) ==
  IF IsThrow(modifiedBuffer) THEN Reply(files, Failure(modifiedBuffer.throw))
  ELSE Written(SetStatsWritten(WriteFileSync(files, request.saveFile.filePath,
                                             modifiedBuffer),
                               request.saveFile.filePath))

HandleSetCharacterStats(files, request) ==
  SetStatsHandled(files, request,
                  setCharacterStats(files[request.saveFile.filePath], request.slotIndex,
                                    request.newStats, request.options))

\* contextBridge.exposeInMainWorld('electronAPI', ...): the methods of
\* window.electronAPI, and the channel each one invokes.
PreloadApi ==
  {"getVersion", "getPlatform", "selectSourceFile", "selectTargetFile",
   "loadExtractedSave", "copySave", "extractSave", "formatPlayTime"}

ChannelOf ==
  [selectSourceFile |-> "select-source-file",
   selectTargetFile |-> "select-target-file",
   loadExtractedSave |-> "load-extracted-save",
   copySave |-> "copy-save",
   extractSave |-> "extract-save",
   formatPlayTime |-> "format-play-time"]

\* the channels setupIpcHandlers registers a handler for
IpcHandlers ==
  {"select-source-file", "select-target-file", "copy-save", "extract-save",
   "load-extracted-save", "format-play-time", "get-character-stats",
   "set-character-stats"}

\* ipcRenderer.invoke(channel, data) on the channels of the save files; a
\* channel without a handler rejects.
IpcInvoke(channel, files, request, choice) ==
  CASE channel \notin IpcHandlers -> Reply(files, Throw("No handler registered"))
    [] channel \in {"select-source-file", "select-target-file"} ->
         HandleSelectFile(files, choice)
    [] channel = "copy-save" -> HandleCopySave(files, request)
    [] channel = "extract-save" -> HandleExtractSave(files, request, choice)
    [] channel = "get-character-stats" -> HandleGetCharacterStats(files, request)
    [] channel = "set-character-stats" -> HandleSetCharacterStats(files, request)

\* window.electronAPI[method](data): a method the bridge does not expose is
\* undefined, and calling it is a TypeError.
NotAFunction == "TypeError: not a function"

ElectronApiCall(method, files, request, choice) ==
  IF method \notin PreloadApi THEN Reply(files, Throw(NotAFunction))
  ELSE IpcInvoke(ChannelOf[method], files, request, choice)

\* The files on disk when the application starts: two save files of which
\* slot 0 differs, and the path of an extraction, not yet written.
SourcePath == "source.sl2"
TargetPath == "target.sl2"
FilesOnDisk == (SourcePath :> Std) @@ (TargetPath :> Decoy) @@ (ExtractPath :> Null)

\* the save files a file dialog offers
SaveFilesOf(files) == DOMAIN files \ {ExtractPath}

\* A session of the application: its events up to the last of MaxWrites
\* writes to the disk.
MaxWrites == 1
SessionOpen == writes < MaxWrites

\* The response of a call: a call that throws is caught by the method.
Succeeded(response) == ~IsThrow(response) /\ response.success

WritesAfter(reply) == IF reply.written THEN writes + 1 ELSE writes

Range(q) == {q[i] : i \in DOMAIN q}

\* loadSourceFile and loadTargetFile
SaveFileLoaded(method, field, reply) ==
  /\ op' = method
  /\ args' = NoArgs
  /\ result' = [success |-> Succeeded(reply.response)]
  /\ ui' = IF Succeeded(reply.response)
             THEN [ui EXCEPT ![field] = reply.response.saveFile]
             ELSE ui
  /\ disk' = reply.files
  /\ UNCHANGED <<file, writes>>

LoadSourceFile ==
  /\ SessionOpen
  /\ \E choice \in SaveFilesOf(disk) \cup {Canceled} :
       SaveFileLoaded("loadSourceFile", "sourceSaveFile",
                      ElectronApiCall("selectSourceFile", disk, NoArgs, choice))

LoadTargetFile ==
  /\ SessionOpen
  /\ \E choice \in SaveFilesOf(disk) \cup {Canceled} :
       SaveFileLoaded("loadTargetFile", "targetSaveFile",
                      ElectronApiCall("selectTargetFile", disk, NoArgs, choice))

\* selectedTargetSlot is a slot index or null: the index is held in a
\* record, which tells it from null.
Slot(index) == [index |-> index]

\* selectSave on an item of the list of the source or of the target
SelectSave ==
  /\ SessionOpen
  /\ \/ /\ ~IsNull(ui.sourceSaveFile)
        /\ \E save \in Range(ui.sourceSaveFile.saves) :
             ui' = [ui EXCEPT !.selectedSourceSave = save]
     \/ /\ ~IsNull(ui.targetSaveFile)
        /\ \E save \in Range(ui.targetSaveFile.saves) :
             ui' = [ui EXCEPT !.selectedTargetSlot = Slot(save.index)]
  /\ op' = "selectSave"
  /\ args' = NoArgs
  /\ result' = Null
  /\ UNCHANGED <<file, disk, writes>>

\* performCopy: the request and what the method does with the response
CopyRequest ==
  [sourceSave |-> ui.selectedSourceSave,
   targetSaveFile |-> ui.targetSaveFile,
   targetSlotIndex |-> ui.selectedTargetSlot.index]

CopyPerformed(request, reply) ==
  /\ op' = "performCopy"
  /\ args' = [request |-> request, before |-> disk]
  /\ result' = reply.response
  /\ ui' = IF Succeeded(reply.response)
             THEN [ui EXCEPT !.targetSaveFile = reply.response.updatedTargetFile]
             ELSE ui
  /\ disk' = reply.files
  /\ writes' = WritesAfter(reply)
  /\ UNCHANGED file

\* showCopyDialog, enabled as updateActionButtons leaves the copy button
ShowCopyDialog ==
  /\ SessionOpen
  /\ ~IsNull(ui.sourceSaveFile)
  /\ ~IsNull(ui.targetSaveFile)
  /\ ~IsNull(ui.selectedSourceSave)
  /\ ~IsNull(ui.selectedTargetSlot)
  /\ CopyPerformed(CopyRequest, ElectronApiCall("copySave", disk, CopyRequest, Canceled))

\* performExtract
ExtractRequest == [save |-> ui.selectedSourceSave]

ExtractPerformed(request, reply) ==
  /\ op' = "performExtract"
  /\ args' = [request |-> request, before |-> disk]
  /\ result' = reply.response
  /\ disk' = reply.files
  /\ writes' = WritesAfter(reply)
  /\ UNCHANGED <<file, ui>>

\* showExtractDialog, enabled as updateActionButtons leaves the button
ShowExtractDialog ==
  /\ SessionOpen
  /\ ~IsNull(ui.sourceSaveFile)
  /\ ~IsNull(ui.selectedSourceSave)
  /\ \E choice \in {ExtractPath, Canceled} :
       ExtractPerformed(ExtractRequest,
                        ElectronApiCall("extractSave", disk, ExtractRequest, choice))

\* showStatsDialog: the stats, then the name; any error closes the dialog
StatsRequest == [saveFile |-> ui.sourceSaveFile, slotIndex |-> ui.selectedSourceSave.index]

StatsLoaded(response) == Succeeded(response) /\ ~IsNull(response.stats)

StatsDialogShown(request, statsReply, nameReply) ==
  /\ op' = "showStatsDialog"
  /\ args' = [request |-> request, before |-> disk]
  /\ result' = IF StatsLoaded(statsReply.response) THEN nameReply.response
               ELSE statsReply.response
  /\ ui' = IF StatsLoaded(statsReply.response) /\ ~IsThrow(nameReply.response)
             THEN [ui EXCEPT !.currentCharacterStats = statsReply.response.stats,
                             !.originalStats = statsReply.response.stats.stats]
             ELSE [ui EXCEPT !.currentCharacterStats = Null, !.originalStats = Null]
  /\ UNCHANGED <<file, disk, writes>>

\* enabled as updateActionButtons leaves the stats button
ShowStatsDialog ==
  /\ SessionOpen
  /\ ~IsNull(ui.sourceSaveFile)
  /\ ~IsNull(ui.selectedSourceSave)
  /\ StatsDialogShown(StatsRequest,
                      ElectronApiCall("getCharacterStats", disk, StatsRequest, Canceled),
                      ElectronApiCall("getCharacterName", disk, StatsRequest, Canceled))

InitUI ==
  /\ file = EmptyBuf
  /\ op = Idle
  /\ args = NoArgs
  /\ result = Null
  /\ disk = FilesOnDisk
  /\ ui = NewUI
  /\ writes = 0

NextUI ==
  \/ LoadSourceFile
  \/ LoadTargetFile
  \/ SelectSave
  \/ ShowCopyDialog
  \/ ShowExtractDialog
  \/ ShowStatsDialog

SpecUI == InitUI /\ [][NextUI]_vars

(***************************************************************************)
(* The handlers of the main process on their own: 'copy-save' and          *)
(* 'set-character-stats' invoked with the requests performCopy and         *)
(* saveStats build from the files the renderer holds, the responses        *)
(* applied as those methods apply them.  The renderer holds the same save  *)
(* file as its source and as its target.                                   *)
(***************************************************************************)
\* the writes the handlers make in one run
MaxHandlerWrites == 2

\* the edits of a request on 'set-character-stats'
EditStats == {AttrsLevel104, AttrsTooLow}

\* saveStats: the response applied, and hideStatsDialog
StatsSaved(request, reply) ==
  /\ op' = "saveStats"
  /\ args' = [request |-> request, before |-> disk]
  /\ result' = reply.response
  /\ ui' = IF Succeeded(reply.response)
             THEN [ui EXCEPT !.sourceSaveFile = reply.response.updatedSaveFile,
                             !.currentCharacterStats = Null,
                             !.originalStats = Null]
             ELSE ui
  /\ disk' = reply.files
  /\ writes' = WritesAfter(reply)
  /\ UNCHANGED file

SetStatsRequest(slotIndex, newStats, options) ==
  [saveFile |-> ui.sourceSaveFile, slotIndex |-> slotIndex, newStats |-> newStats,
   options |-> options]

SetCharacterStatsRequest ==
  /\ writes < MaxHandlerWrites
  /\ \E save \in Range(ui.sourceSaveFile.saves), newStats \in EditStats :
       StatsSaved(SetStatsRequest(save.index, newStats, NoOptions),
                  IpcInvoke("set-character-stats", disk,
                            SetStatsRequest(save.index, newStats, NoOptions), Canceled))

\* A slot of the target picked in a list that has been replaced since may
\* not be a slot of the file: one index past the slots stands for it.
CopySaveRequestOf(sourceSave, targetSlotIndex) ==
  [sourceSave |-> sourceSave, targetSaveFile |-> ui.targetSaveFile,
   targetSlotIndex |-> targetSlotIndex]

CopySaveRequest ==
  /\ writes < MaxHandlerWrites
  /\ \E sourceSave \in Range(ui.sourceSaveFile.saves), targetSlotIndex \in 0..NumSlots :
       CopyPerformed(CopySaveRequestOf(sourceSave, targetSlotIndex),
                     IpcInvoke("copy-save", disk,
                               CopySaveRequestOf(sourceSave, targetSlotIndex), Canceled))

InitIpc ==
  /\ file = EmptyBuf
  /\ op = Idle
  /\ args = NoArgs
  /\ result = Null
  /\ disk = FilesOnDisk
  /\ ui = [NewUI EXCEPT !.sourceSaveFile = loadSaveFile(FilesOnDisk, SourcePath),
                        !.targetSaveFile = loadSaveFile(FilesOnDisk, SourcePath)]
  /\ writes = 0

NextIpc ==
  \/ SetCharacterStatsRequest
  \/ CopySaveRequest

SpecIpc == InitIpc /\ [][NextIpc]_vars

(***************************************************************************)
(* Properties of the handlers and of the renderer.                         *)
(***************************************************************************)
\* The core operation of the request of the last call, evaluated on what
\* the handler was given: the renderer's copy of the target for a copy, the
\* file as it was on disk for an edit.
CopyOfRequest ==
  copySave(args.request.sourceSave, args.request.targetSaveFile,
           args.request.targetSlotIndex)
EditOfRequest ==
  setCharacterStats(args.before[args.request.saveFile.filePath], args.request.slotIndex,
                    args.request.newStats, args.request.options)

\* What a handler must leave for the outcome of its core operation: on an
\* error the failure response and the disk as it was, on a buffer that
\* buffer as the file and nothing else changed.
HandledAs(outcome, filePath) ==
  IF IsThrow(outcome)
    THEN /\ result = [success |-> FALSE, error |-> outcome.throw]
         /\ disk = args.before
    ELSE disk = [args.before EXCEPT ![filePath] = outcome]

\* C27: the 'copy-save' and 'set-character-stats' handlers write the file
\* only after the core operation has returned a complete buffer; when
\* copySave or setCharacterStats raises, the handler returns
\* {success: false, error} and the bytes of the file on disk are unchanged.
C27_WriteAfterCoreReturns ==
  /\ op = "performCopy" => HandledAs(CopyOfRequest, args.request.targetSaveFile.filePath)
  /\ op = "saveStats" => HandledAs(EditOfRequest, args.request.saveFile.filePath)

C27_Witness ==
  /\ op = "saveStats"
  /\ args.request.newStats = AttrsTooLow
  /\ ~IsNull(getCharacterStats(args.before[SourcePath], args.request.slotIndex))
  /\ IsThrow(EditOfRequest)
  /\ result = [success |-> FALSE, error |-> "Failed to set character stats: RangeError"]
  /\ writes = 1
  /\ disk = args.before
  /\ disk[SourcePath] # Std

\* What a slot of a save file holds: its save data, its record in the
\* save-headers section and its active flag.
SlotContent(save) ==
  [saveData |-> save.saveData, headerData |-> save.headerData, active |-> save.active]
SlotContentOf(buffer, slotIndex) ==
  SlotContent(FindSave(parseSaveFile(buffer).saves, slotIndex))

C29_SelectionInSourceFile ==
  ~IsNull(ui.selectedSourceSave) =>
    ui.selectedSourceSave \in Range(ui.sourceSaveFile.saves)

\* C30: opening the stats dialog for a selected save whose stats block can
\* be located ends with the dialog populated and currentCharacterStats
\* set, not with an error and the dialog closed.
C30_StatsDialogOpens ==
  (/\ op = "showStatsDialog"
   /\ ~IsNull(getCharacterStats(args.before[args.request.saveFile.filePath],
                                args.request.slotIndex)))
    => /\ ~IsThrow(result)
       /\ ~IsNull(ui.currentCharacterStats)
====
